---------------------------- MODULE Spec2Model ----------------------------
(***************************************************************************)
(* A model of the tetris.ts rules engine: the tetromino catalogue, the     *)
(* board, the SRS rotation system, the 7-bag randomizer, the scoring       *)
(* engine, the mode rules and the GameState state machine.                 *)
(*                                                                         *)
(* Arrays of the source are 0-based.  Grids, rotation states and cell      *)
(* coordinates keep the source's 0-based indices (functions over 0..n-1);  *)
(* the piece lists of the randomizer and the next queue are TLA+           *)
(* sequences, so index i of the source is index i+1 here.                  *)
(***************************************************************************)
EXTENDS Integers, Sequences, FiniteSets, TLC

(***************************************************************************)
(* Tetrominoes.ts                                                          *)
(***************************************************************************)
PieceType == {"I", "O", "T", "S", "Z", "J", "L"}

ALL_PIECE_TYPES == <<"I", "O", "T", "S", "Z", "J", "L">>

Cell(r, c) == [row |-> r, col |-> c]

\* PIECE_DATA[type].states: rotation state 0..3 -> the 4 cell offsets, in the
\* order of the source (index 0..3 of the source is index 1..4 here).
TETROMINOES ==
  [t \in PieceType |->
    CASE t = "I" -> <<
           <<Cell(1,0), Cell(1,1), Cell(1,2), Cell(1,3)>>,
           <<Cell(0,2), Cell(1,2), Cell(2,2), Cell(3,2)>>,
           <<Cell(2,0), Cell(2,1), Cell(2,2), Cell(2,3)>>,
           <<Cell(0,1), Cell(1,1), Cell(2,1), Cell(3,1)>> >>
      [] t = "O" -> <<
           <<Cell(0,0), Cell(0,1), Cell(1,0), Cell(1,1)>>,
           <<Cell(0,0), Cell(0,1), Cell(1,0), Cell(1,1)>>,
           <<Cell(0,0), Cell(0,1), Cell(1,0), Cell(1,1)>>,
           <<Cell(0,0), Cell(0,1), Cell(1,0), Cell(1,1)>> >>
      [] t = "T" -> <<
           <<Cell(0,1), Cell(1,0), Cell(1,1), Cell(1,2)>>,
           <<Cell(0,1), Cell(1,1), Cell(1,2), Cell(2,1)>>,
           <<Cell(1,0), Cell(1,1), Cell(1,2), Cell(2,1)>>,
           <<Cell(0,1), Cell(1,0), Cell(1,1), Cell(2,1)>> >>
      [] t = "S" -> <<
           <<Cell(0,1), Cell(0,2), Cell(1,0), Cell(1,1)>>,
           <<Cell(0,1), Cell(1,1), Cell(1,2), Cell(2,2)>>,
           <<Cell(1,1), Cell(1,2), Cell(2,0), Cell(2,1)>>,
           <<Cell(0,0), Cell(1,0), Cell(1,1), Cell(2,1)>> >>
      [] t = "Z" -> <<
           <<Cell(0,0), Cell(0,1), Cell(1,1), Cell(1,2)>>,
           <<Cell(0,2), Cell(1,1), Cell(1,2), Cell(2,1)>>,
           <<Cell(1,0), Cell(1,1), Cell(2,1), Cell(2,2)>>,
           <<Cell(0,1), Cell(1,0), Cell(1,1), Cell(2,0)>> >>
      [] t = "J" -> <<
           <<Cell(0,0), Cell(1,0), Cell(1,1), Cell(1,2)>>,
           <<Cell(0,1), Cell(0,2), Cell(1,1), Cell(2,1)>>,
           <<Cell(1,0), Cell(1,1), Cell(1,2), Cell(2,2)>>,
           <<Cell(0,1), Cell(1,1), Cell(2,0), Cell(2,1)>> >>
      [] t = "L" -> <<
           <<Cell(0,2), Cell(1,0), Cell(1,1), Cell(1,2)>>,
           <<Cell(0,1), Cell(1,1), Cell(2,1), Cell(2,2)>>,
           <<Cell(1,0), Cell(1,1), Cell(1,2), Cell(2,0)>>,
           <<Cell(0,0), Cell(0,1), Cell(1,1), Cell(2,1)>> >> ]

\* the elements of a list
Range(seq) == {seq[i] : i \in 1..Len(seq)}

\* getCells: states[rotation & 3]
getCells(type, rotation) == TETROMINOES[type][(rotation % 4) + 1]

\* getAbsoluteCells: the 4 board cells, in the order of getCells
Shifted(cells, originRow, originCol) ==
  [i \in 1..4 |-> Cell(cells[i].row + originRow, cells[i].col + originCol)]

getAbsoluteCells(type, rotation, originRow, originCol) ==
  Shifted(getCells(type, rotation), originRow, originCol)

(***************************************************************************)
(* Board.ts                                                                *)
(***************************************************************************)
BOARD_COLS == 10
BOARD_VISIBLE_ROWS == 20
BOARD_BUFFER_ROWS == 20
BOARD_ROWS == BOARD_VISIBLE_ROWS + BOARD_BUFFER_ROWS

\* CellValue = PieceType | null
Empty == "null"

EmptyRow == [c \in 0..(BOARD_COLS - 1) |-> Empty]

createEmptyGrid == [r \in 0..(BOARD_ROWS - 1) |-> EmptyRow]

InBounds(row, col) ==
  /\ row >= 0 /\ row < BOARD_ROWS
  /\ col >= 0 /\ col < BOARD_COLS

\* Board.getCell: 'wall' outside the grid
getCell(grid, row, col) ==
  IF ~InBounds(row, col) THEN "wall" ELSE grid[row][col]

\* Board.isValidPosition
isValidPosition(grid, type, rotation, originRow, originCol) ==
  \A c \in Range(getCells(type, rotation)) :
    /\ InBounds(c.row + originRow, c.col + originCol)
    /\ grid[c.row + originRow][c.col + originCol] = Empty

\* Board.lockPiece: writes the in-bounds cells of the piece, unconditionally
RECURSIVE LockCells(_, _, _, _)
LockCells(grid, cells, type, i) ==
  IF i > Len(cells) THEN grid
  ELSE LockCells(IF InBounds(cells[i].row, cells[i].col)
                   THEN [grid EXCEPT ![cells[i].row][cells[i].col] = type]
                   ELSE grid,
                 cells, type, i + 1)

lockPiece(grid, type, rotation, originRow, originCol) ==
  LockCells(grid, getAbsoluteCells(type, rotation, originRow, originCol), type, 1)

\* RowComplete without a look at the last column
RowCompleteButLast(grid, r) ==
  \A c \in 0..(BOARD_COLS - 2) : grid[r][c] # Empty

RowComplete(grid, r) == \A c \in 0..(BOARD_COLS - 1) : grid[r][c] # Empty

\* the indices clearLines collects (as a set; the source lists them bottom-up)
ClearedRows(grid) == {r \in 0..(BOARD_ROWS - 1) : RowComplete(grid, r)}

\* newGrid = grid.filter(row not cleared): the kept rows, top to bottom
RECURSIVE KeptRows(_, _)
KeptRows(grid, r) ==
  IF r >= BOARD_ROWS THEN <<>>
  ELSE IF RowComplete(grid, r) THEN KeptRows(grid, r + 1)
       ELSE <<grid[r]>> \o KeptRows(grid, r + 1)

\* clearLines that finds no row to clear
clearLinesNone(grid) == [count |-> 0, rows |-> {}, grid |-> grid]

\* Board.clearLines: [count, rows, grid]; grid = [...emptyRows, ...newGrid]
clearLines(grid) ==
  LET cleared == ClearedRows(grid)
      n == Cardinality(cleared)
      kept == KeptRows(grid, 0)
  IN IF n = 0
       THEN [count |-> 0, rows |-> {}, grid |-> grid]
       ELSE [count |-> n, rows |-> cleared,
             grid |-> [r \in 0..(BOARD_ROWS - 1) |->
                         IF r < n THEN EmptyRow ELSE kept[r - n + 1]]]

\* getGhostRow that leaves the piece where it is
getGhostRowHere(grid, type, rotation, originRow, originCol) == originRow

\* Board.getGhostRow
RECURSIVE getGhostRow(_, _, _, _, _)
getGhostRow(grid, type, rotation, originRow, originCol) ==
  IF isValidPosition(grid, type, rotation, originRow + 1, originCol)
    THEN getGhostRow(grid, type, rotation, originRow + 1, originCol)
    ELSE originRow

\* Board.isTopRowOccupied
isTopRowOccupied(grid) ==
  \E r \in 0..(BOARD_BUFFER_ROWS - 1) :
    \E c \in 0..(BOARD_COLS - 1) : grid[r][c] # Empty

(***************************************************************************)
(* RotationSystem.ts                                                       *)
(***************************************************************************)
\* JLSTZ_KICKS whose '1>0' list has the test without a kick only
JLSTZ_KICKSOneWay(from, to) ==
  CASE from = 0 /\ to = 1 -> << <<0,0>>, <<-1,0>>, <<-1,-1>>, <<0,2>>, <<-1,2>> >>
    [] from = 1 /\ to = 0 -> << <<0,0>> >>
    [] from = 1 /\ to = 2 -> << <<0,0>>, <<1,0>>, <<1,1>>, <<0,-2>>, <<1,-2>> >>
    [] from = 2 /\ to = 1 -> << <<0,0>>, <<-1,0>>, <<-1,-1>>, <<0,2>>, <<-1,2>> >>
    [] from = 2 /\ to = 3 -> << <<0,0>>, <<1,0>>, <<1,-1>>, <<0,2>>, <<1,2>> >>
    [] from = 3 /\ to = 2 -> << <<0,0>>, <<-1,0>>, <<-1,1>>, <<0,-2>>, <<-1,-2>> >>
    [] from = 3 /\ to = 0 -> << <<0,0>>, <<-1,0>>, <<-1,1>>, <<0,-2>>, <<-1,-2>> >>
    [] from = 0 /\ to = 3 -> << <<0,0>>, <<1,0>>, <<1,-1>>, <<0,2>>, <<1,2>> >>
    [] OTHER -> <<>>

\* JLSTZ_KICKS["from>to"]: the 5 [colOffset, rowOffset] tests, in order;
\* <<>> stands for a key the table does not have.
JLSTZ_KICKS(from, to) ==
  CASE from = 0 /\ to = 1 -> << <<0,0>>, <<-1,0>>, <<-1,-1>>, <<0,2>>, <<-1,2>> >>
    [] from = 1 /\ to = 0 -> << <<0,0>>, <<1,0>>, <<1,1>>, <<0,-2>>, <<1,-2>> >>
    [] from = 1 /\ to = 2 -> << <<0,0>>, <<1,0>>, <<1,1>>, <<0,-2>>, <<1,-2>> >>
    [] from = 2 /\ to = 1 -> << <<0,0>>, <<-1,0>>, <<-1,-1>>, <<0,2>>, <<-1,2>> >>
    [] from = 2 /\ to = 3 -> << <<0,0>>, <<1,0>>, <<1,-1>>, <<0,2>>, <<1,2>> >>
    [] from = 3 /\ to = 2 -> << <<0,0>>, <<-1,0>>, <<-1,1>>, <<0,-2>>, <<-1,-2>> >>
    [] from = 3 /\ to = 0 -> << <<0,0>>, <<-1,0>>, <<-1,1>>, <<0,-2>>, <<-1,-2>> >>
    [] from = 0 /\ to = 3 -> << <<0,0>>, <<1,0>>, <<1,-1>>, <<0,2>>, <<1,2>> >>
    [] OTHER -> <<>>

I_KICKS(from, to) ==
  CASE from = 0 /\ to = 1 -> << <<0,0>>, <<-2,0>>, <<1,0>>, <<-2,1>>, <<1,-2>> >>
    [] from = 1 /\ to = 0 -> << <<0,0>>, <<2,0>>, <<-1,0>>, <<2,-1>>, <<-1,2>> >>
    [] from = 1 /\ to = 2 -> << <<0,0>>, <<-1,0>>, <<2,0>>, <<-1,-2>>, <<2,1>> >>
    [] from = 2 /\ to = 1 -> << <<0,0>>, <<1,0>>, <<-2,0>>, <<1,2>>, <<-2,-1>> >>
    [] from = 2 /\ to = 3 -> << <<0,0>>, <<2,0>>, <<-1,0>>, <<2,-1>>, <<-1,2>> >>
    [] from = 3 /\ to = 2 -> << <<0,0>>, <<-2,0>>, <<1,0>>, <<-2,1>>, <<1,-2>> >>
    [] from = 3 /\ to = 0 -> << <<0,0>>, <<1,0>>, <<-2,0>>, <<1,2>>, <<-2,-1>> >>
    [] from = 0 /\ to = 3 -> << <<0,0>>, <<-1,0>>, <<2,0>>, <<-1,-2>>, <<2,1>> >>
    [] OTHER -> <<>>

Abs(x) == IF x < 0 THEN -x ELSE x

\* checkTSpin, from the centre on: [isTSpin, isMini]
CornerRule(grid, rotation, centerRow, centerCol, kickColOff, kickRowOff) ==
  LET corners == << Cell(centerRow - 1, centerCol - 1),
                    Cell(centerRow - 1, centerCol + 1),
                    Cell(centerRow + 1, centerCol - 1),
                    Cell(centerRow + 1, centerCol + 1) >>
      cornerOccupied ==
        [i \in 1..4 |-> getCell(grid, corners[i].row, corners[i].col) # Empty]
      occupiedCount == Cardinality({i \in 1..4 : cornerOccupied[i]})
      \* frontCorners, as indices into corners (source index + 1)
      frontCorners == CASE rotation = 0 -> <<1, 2>>
                        [] rotation = 1 -> <<2, 4>>
                        [] rotation = 2 -> <<3, 4>>
                        [] rotation = 3 -> <<1, 3>>
                        [] OTHER -> <<1, 2>>
      bothFrontOccupied ==
        cornerOccupied[frontCorners[1]] /\ cornerOccupied[frontCorners[2]]
      isSignificantKick == Abs(kickColOff) > 1 \/ Abs(kickRowOff) > 1
  IN IF occupiedCount < 3 THEN [isTSpin |-> FALSE, isMini |-> FALSE]
     ELSE IF bothFrontOccupied THEN [isTSpin |-> TRUE, isMini |-> FALSE]
     ELSE IF isSignificantKick THEN [isTSpin |-> TRUE, isMini |-> FALSE]
     ELSE [isTSpin |-> TRUE, isMini |-> TRUE]

\* the cell checkTSpin takes for the centre: cells[2] of the source
CenterOf(cells, originRow, originCol) ==
  Cell(originRow + cells[3].row, originCol + cells[3].col)

CornerRuleAt(grid, rotation, center, kickColOff, kickRowOff) ==
  CornerRule(grid, rotation, center.row, center.col, kickColOff, kickRowOff)

\* checkTSpin: [isTSpin, isMini]
checkTSpin(grid, rotation, originRow, originCol, kickColOff, kickRowOff) ==
  CornerRuleAt(grid, rotation,
               CenterOf(getCells("T", rotation), originRow, originCol),
               kickColOff, kickRowOff)

\* the "null" result of tryRotate
NoRotation ==
  [ok |-> FALSE, newRotation |-> 0, kickCol |-> 0, kickRow |-> 0,
   isTSpin |-> FALSE, isTSpinMini |-> FALSE]

\* the RotationResult tryRotate returns for the kick it takes
RotationResult(toState, colOff, rowOff, t) ==
  [ok |-> TRUE, newRotation |-> toState, kickCol |-> colOff,
   kickRow |-> -rowOff, isTSpin |-> t.isTSpin, isTSpinMini |-> t.isMini]

\* the body of tryRotate's loop for the test [colOff, rowOff] that fits
KickTaken(grid, type, toState, originRow, originCol, colOff, rowOff) ==
  RotationResult(toState, colOff, rowOff,
                 IF type = "T"
                   THEN checkTSpin(grid, toState, originRow - rowOff,
                                   originCol + colOff, colOff, rowOff)
                   ELSE [isTSpin |-> FALSE, isMini |-> FALSE])

\* the greatest element instead: the last test that fits
FirstFromEnd(valid) == CHOOSE k \in valid : \A m \in valid : k >= m

\* the least element of a non-empty set of indices
First(valid) == CHOOSE k \in valid : \A m \in valid : k <= m

\* tryRotate's loop: the first test of kicks, in order, whose position is valid
KickLoop(grid, type, toState, originRow, originCol, kicks, valid) ==
  IF valid = {} THEN NoRotation
  ELSE KickTaken(grid, type, toState, originRow, originCol,
                 kicks[First(valid)][1], kicks[First(valid)][2])

\* tryRotate, from the kick table on
KickTests(grid, type, toState, originRow, originCol, kicks) ==
  IF type = "O" THEN NoRotation
  ELSE IF kicks = <<>> THEN NoRotation
  ELSE KickLoop(grid, type, toState, originRow, originCol, kicks,
                {i \in 1..Len(kicks) :
                   isValidPosition(grid, type, toState,
                                   originRow - kicks[i][2],
                                   originCol + kicks[i][1])})

\* tryRotate
tryRotate(grid, type, currentRotation, originRow, originCol, direction) ==
  KickTests(grid, type, (currentRotation + direction) % 4, originRow, originCol,
            IF type = "I"
              THEN I_KICKS(currentRotation % 4, (currentRotation + direction) % 4)
              ELSE JLSTZ_KICKS(currentRotation % 4,
                               (currentRotation + direction) % 4))

(***************************************************************************)
(* Scoring.ts                                                              *)
(***************************************************************************)
ClearType == {"NONE", "SINGLE", "DOUBLE", "TRIPLE", "TETRIS", "TSPIN_MINI",
              "TSPIN_SINGLE", "TSPIN_DOUBLE", "TSPIN_TRIPLE", "TSPIN_ZERO"}

\* BASE_SCORES with the entries of TSPIN_MINI and TSPIN_ZERO exchanged
BASE_SCORESExchanged(clearType) ==
  CASE clearType = "NONE" -> 0
    [] clearType = "SINGLE" -> 100
    [] clearType = "DOUBLE" -> 300
    [] clearType = "TRIPLE" -> 500
    [] clearType = "TETRIS" -> 800
    [] clearType = "TSPIN_MINI" -> 400
    [] clearType = "TSPIN_ZERO" -> 100
    [] clearType = "TSPIN_SINGLE" -> 800
    [] clearType = "TSPIN_DOUBLE" -> 1200
    [] clearType = "TSPIN_TRIPLE" -> 1600

BASE_SCORES(clearType) ==
  CASE clearType = "NONE" -> 0
    [] clearType = "SINGLE" -> 100
    [] clearType = "DOUBLE" -> 300
    [] clearType = "TRIPLE" -> 500
    [] clearType = "TETRIS" -> 800
    [] clearType = "TSPIN_MINI" -> 100
    [] clearType = "TSPIN_ZERO" -> 400
    [] clearType = "TSPIN_SINGLE" -> 800
    [] clearType = "TSPIN_DOUBLE" -> 1200
    [] clearType = "TSPIN_TRIPLE" -> 1600

\* isDifficultClear without TSPIN_MINI
isDifficultClearNoMini(clearType) ==
  clearType \in {"TETRIS", "TSPIN_SINGLE", "TSPIN_DOUBLE", "TSPIN_TRIPLE"}

\* isDifficultClear with TSPIN_ZERO
isDifficultClearAnySpin(clearType) ==
  clearType \in {"TETRIS", "TSPIN_SINGLE", "TSPIN_DOUBLE", "TSPIN_TRIPLE",
                 "TSPIN_MINI", "TSPIN_ZERO"}

isDifficultClear(clearType) ==
  clearType \in {"TETRIS", "TSPIN_SINGLE", "TSPIN_DOUBLE", "TSPIN_TRIPLE",
                 "TSPIN_MINI"}

\* createScoringState with a combo already counted
createScoringStateComboZero ==
  [score |-> 0, combo |-> 0, backToBack |-> -1, lastClearType |-> "NONE"]

\* createScoringState
createScoringState ==
  [score |-> 0, combo |-> -1, backToBack |-> -1, lastClearType |-> "NONE"]

\* determineClearType with TSPIN_MINI for every mini of at most one line
determineClearTypeMiniFirst(linesCleared, isTSpin, isTSpinMini) ==
  IF isTSpin \/ isTSpinMini
    THEN IF isTSpinMini /\ linesCleared <= 1
           THEN "TSPIN_MINI"
           ELSE CASE linesCleared = 0 -> "TSPIN_ZERO"
                  [] linesCleared = 1 -> "TSPIN_SINGLE"
                  [] linesCleared = 2 -> "TSPIN_DOUBLE"
                  [] linesCleared = 3 -> "TSPIN_TRIPLE"
                  [] OTHER -> "TSPIN_TRIPLE"
    ELSE CASE linesCleared = 0 -> "NONE"
           [] linesCleared = 1 -> "SINGLE"
           [] linesCleared = 2 -> "DOUBLE"
           [] linesCleared = 3 -> "TRIPLE"
           [] OTHER -> "TETRIS"

determineClearType(linesCleared, isTSpin, isTSpinMini) ==
  IF isTSpin \/ isTSpinMini
    THEN IF isTSpinMini /\ linesCleared <= 1
           THEN (IF linesCleared = 0 THEN "TSPIN_ZERO" ELSE "TSPIN_MINI")
           ELSE CASE linesCleared = 0 -> "TSPIN_ZERO"
                  [] linesCleared = 1 -> "TSPIN_SINGLE"
                  [] linesCleared = 2 -> "TSPIN_DOUBLE"
                  [] linesCleared = 3 -> "TSPIN_TRIPLE"
                  [] OTHER -> "TSPIN_TRIPLE"
    ELSE CASE linesCleared = 0 -> "NONE"
           [] linesCleared = 1 -> "SINGLE"
           [] linesCleared = 2 -> "DOUBLE"
           [] linesCleared = 3 -> "TRIPLE"
           [] OTHER -> "TETRIS"

Max(a, b) == IF a >= b THEN a ELSE b
Min(a, b) == IF a <= b THEN a ELSE b

\* processLineClear: [state |-> the mutated ScoringState, result |-> ClearResult]
processLineClear(state, linesCleared, level, isTSpin, isTSpinMini) ==
  LET clearType == determineClearType(linesCleared, isTSpin, isTSpinMini)
  IN IF clearType = "NONE" /\ ~isTSpin /\ ~isTSpinMini
       THEN [state |-> [state EXCEPT !.combo = -1, !.lastClearType = "NONE"],
             result |-> [clearType |-> clearType, scoreAwarded |-> 0,
                         isBackToBack |-> FALSE, combo |-> -1]]
       ELSE LET combo == state.combo + 1
                base == BASE_SCORES(clearType) * level
                difficult == isDifficultClear(clearType)
                isBackToBack == difficult /\ state.backToBack >= 0
                \* Math.floor(score * 1.5) on an integer score
                score1 == IF isBackToBack THEN (base * 3) \div 2 ELSE base
                backToBack == IF difficult THEN Max(0, state.backToBack) + 1
                              ELSE IF linesCleared > 0 THEN -1
                              ELSE state.backToBack
                score2 == IF combo > 0 THEN score1 + 50 * combo * level
                          ELSE score1
            IN [state |-> [score |-> state.score + score2, combo |-> combo,
                           backToBack |-> backToBack,
                           lastClearType |-> clearType],
                result |-> [clearType |-> clearType, scoreAwarded |-> score2,
                            isBackToBack |-> isBackToBack, combo |-> combo]]

\* scoreSoftDrop at the hard-drop rate
scoreSoftDropDouble(state, cells) == [state EXCEPT !.score = @ + cells * 2]

scoreSoftDrop(state, cells) == [state EXCEPT !.score = @ + cells]

\* scoreHardDrop at the soft-drop rate
scoreHardDropSingle(state, cells) == [state EXCEPT !.score = @ + cells]

scoreHardDrop(state, cells) == [state EXCEPT !.score = @ + cells * 2]

(***************************************************************************)
(* GameMode.ts                                                             *)
(***************************************************************************)
MARATHON_MODE ==
  [type |-> "MARATHON", startLevel |-> 1, maxLevel |-> 15, timeLimit |-> 0,
   lineTarget |-> 150, isCompletable |-> TRUE]

SPRINT_MODE ==
  [type |-> "SPRINT", startLevel |-> 1, maxLevel |-> 1, timeLimit |-> 0,
   lineTarget |-> 40, isCompletable |-> TRUE]

ULTRA_MODE ==
  [type |-> "ULTRA", startLevel |-> 1, maxLevel |-> 15,
   timeLimit |-> 2 * 60 * 1000, lineTarget |-> 0, isCompletable |-> FALSE]

ALL_MODES == {MARATHON_MODE, SPRINT_MODE, ULTRA_MODE}

\* mode.linesPerLevel(level)
linesPerLevel(mode, level) == IF mode.type = "SPRINT" THEN 0 ELSE 10

\* isModeCompleted with a sprint that needs more lines than its target
isModeCompletedPastTarget(mode, level, totalLines, elapsedMs) ==
  IF ~mode.isCompletable THEN FALSE
  ELSE CASE mode.type = "MARATHON" -> level > mode.maxLevel
         [] mode.type = "SPRINT" -> totalLines > mode.lineTarget
         [] mode.type = "ULTRA" -> FALSE
         [] OTHER -> FALSE

isModeCompleted(mode, level, totalLines, elapsedMs) ==
  IF ~mode.isCompletable THEN FALSE
  ELSE CASE mode.type = "MARATHON" -> level > mode.maxLevel
         [] mode.type = "SPRINT" -> totalLines >= mode.lineTarget
         [] mode.type = "ULTRA" -> FALSE
         [] OTHER -> FALSE

\* isTimeExpired that takes a time limit of 0 for a limit
isTimeExpiredAtZero(mode, elapsedMs) == elapsedMs >= mode.timeLimit

isTimeExpired(mode, elapsedMs) ==
  mode.timeLimit > 0 /\ elapsedMs >= mode.timeLimit

RECURSIVE LevelLoop(_, _, _)
LevelLoop(mode, level, linesRemaining) ==
  IF linesRemaining > 0
    THEN LET needed == linesPerLevel(mode, level)
         IN IF needed <= 0 THEN level
            ELSE IF linesRemaining >= needed
                   THEN LevelLoop(mode, level + 1, linesRemaining - needed)
                   ELSE level
    ELSE level

calculateLevel(mode, startLevel, totalLines) ==
  Min(LevelLoop(mode, startLevel, totalLines), mode.maxLevel + 1)

\* getGravityInterval, in microseconds: max(1000 * (0.8 - (l-1)*0.007)^(l-1), 16)
\* milliseconds with l = max(1, level), rounded to the microsecond (exact for
\* levels 1..3, whose values have at most 3 decimals, and from level 14 on).
getGravityInterval(level) ==
  LET l == Max(1, level)
  IN CASE l = 1 -> 1000000
       [] l = 2 -> 793000
       [] l = 3 -> 617796
       [] l = 4 -> 472729
       [] l = 5 -> 355197
       [] l = 6 -> 262004
       [] l = 7 -> 189677
       [] l = 8 -> 134735
       [] l = 9 -> 93882
       [] l = 10 -> 64152
       [] l = 11 -> 42976
       [] l = 12 -> 28218
       [] l = 13 -> 18153
       [] OTHER -> 16000

(***************************************************************************)
(* BagRandomizer.ts                                                        *)
(*                                                                         *)
(* A value of the random source is a fraction n / RngDen, 0 <= n < RngDen, *)
(* so it lies in [0,1).  A source is a record [src, calls]: src is the     *)
(* cyclic sequence of numerators the source returns (as createTestRng of   *)
(* the tests returns a fixed sequence), calls the number of values taken.  *)
(***************************************************************************)
RngDen == 8

\* a source whose values depend on how long it is written
NextRandomsByLength(rng) ==
  {[m \in 1..6 |->
      (rng.src[((rng.calls + m - 1) % Len(rng.src)) + 1] + Len(rng.src))
        % RngDen]}

\* the values the next 6 calls of rng() return (one shuffle takes 6)
NextRandoms(rng) ==
  {[m \in 1..6 |-> rng.src[((rng.calls + m - 1) % Len(rng.src)) + 1]]}

\* a swap that loses arr[a]
SwapOneWay(arr, a, b) == [arr EXCEPT ![a] = arr[b]]

Swap(arr, a, b) == [arr EXCEPT ![a] = arr[b], ![b] = arr[a]]

\* shuffle: for (i = len-1; i > 0; i--) { j = floor(rng() * (i+1)); swap i, j }
\* rs[k] is the numerator of the k-th value drawn by this shuffle.
RECURSIVE ShuffleLoop(_, _, _, _)
ShuffleLoop(arr, i, rs, k) ==
  IF i <= 0 THEN arr
  ELSE LET j == (rs[k] * (i + 1)) \div RngDen
       IN ShuffleLoop(Swap(arr, i + 1, j + 1), i - 1, rs, k + 1)

shuffle(arr, rs) == ShuffleLoop(arr, Len(arr) - 1, rs, 1)

\* fillBag / fillNextBag
fillBag(rs) == shuffle(ALL_PIECE_TYPES, rs)

\* BagRandomizer.next on the randomizer fields of state s; rs is consumed
\* only when the bag is refilled.  [state, piece]
randomizerNext(s, rs) ==
  LET s1 == IF Len(s.bag) = 0
              THEN [s EXCEPT !.bag = s.nextBag, !.nextBag = fillBag(rs),
                             !.rng.calls = @ + 6]
              ELSE s
  IN [state |-> [s1 EXCEPT !.bag = Tail(@),
                           !.drawn = Append(@, Head(s1.bag))],
      piece |-> Head(s1.bag)]

\* preview that reads the next bag before the current one
previewNextBagFirst(s, count) ==
  LET combined == s.nextBag \o s.bag
  IN SubSeq(combined, 1, Min(count, Len(combined)))

\* BagRandomizer.preview
preview(s, count) ==
  LET combined == s.bag \o s.nextBag
  IN SubSeq(combined, 1, Min(count, Len(combined)))

\* BagRandomizer.reset: fillBag, then fillNextBag
reset(s, rs1, rs2) ==
  [s EXCEPT !.bag = fillBag(rs1), !.nextBag = fillBag(rs2),
            !.rng.calls = @ + 12, !.drawn = <<>>]

\* new BagRandomizer(rng)
NewBagRandomizer(src) ==
  LET rs1 == CHOOSE rs \in NextRandoms([src |-> src, calls |-> 0]) : TRUE
      rs2 == CHOOSE rs \in NextRandoms([src |-> src, calls |-> 6]) : TRUE
  IN [bag |-> fillBag(rs1), nextBag |-> fillBag(rs2),
      rng |-> [src |-> src, calls |-> 12], drawn |-> <<>>]

(***************************************************************************)
(* GameState.ts                                                            *)
(***************************************************************************)
LOCK_DELAY_MS == 500
MAX_LOCK_RESETS == 15
SPAWN_COL == 3
NEXT_QUEUE_SIZE == 5

GameStatus == {"PLAYING", "PAUSED", "GAME_OVER", "COMPLETED"}

\* getSpawnRow that forgets the I piece
getSpawnRowSame(type) == BOARD_BUFFER_ROWS - 1

getSpawnRow(type) ==
  IF type = "I" THEN BOARD_BUFFER_ROWS - 2 ELSE BOARD_BUFFER_ROWS - 1

\* currentPiece = null, holdPiece = null
NoPiece == [type |-> "null", rotation |-> 0, row |-> 0, col |-> 0]
NoHold == "null"

Piece(type, rotation, row, col) ==
  [type |-> type, rotation |-> rotation, row |-> row, col |-> col]

\* GameEvent; data is the distance of a hard_drop, the level of a level_up,
\* the number of lines of a line_clear, and 0 otherwise
Event(type, data) == [type |-> type, data |-> data]

\* emitEvent that puts the event in front of the earlier ones
emitEventFirst(s, type, data) ==
  [s EXCEPT !.events = <<Event(type, data)>> \o @]

emitEvent(s, type, data) == [s EXCEPT !.events = Append(@, Event(type, data))]

\* spawnPiece without the collision check
spawnPieceUnchecked(s, rs) ==
  LET type == Head(s.nextQueue)
      r == randomizerNext(s, rs)
  IN [r.state EXCEPT !.nextQueue = Append(Tail(s.nextQueue), r.piece),
                     !.currentPiece = Piece(type, 0, getSpawnRow(type), SPAWN_COL),
                     !.holdUsed = FALSE,
                     !.lockDelayActive = FALSE,
                     !.lockDelayTimer = 0,
                     !.lockResetCount = 0,
                     !.gravityAccumulator = 0,
                     !.lastWasTSpin = FALSE,
                     !.lastWasTSpinMini = FALSE,
                     !.lastMoveWasRotation = FALSE]

\* spawnPiece without the push of a fresh draw
spawnPieceNoDraw(s, rs) ==
  LET type == Head(s.nextQueue)
      s1 == [s EXCEPT !.nextQueue = Tail(s.nextQueue)]
      spawnRow == getSpawnRow(type)
      spawnCol == SPAWN_COL
  IN IF ~isValidPosition(s1.board, type, 0, spawnRow, spawnCol)
       THEN emitEvent([s1 EXCEPT !.status = "GAME_OVER",
                                 !.currentPiece = Piece(type, 0, spawnRow, spawnCol)],
                      "game_over", 0)
       ELSE [s1 EXCEPT !.currentPiece = Piece(type, 0, spawnRow, spawnCol),
                       !.holdUsed = FALSE,
                       !.lockDelayActive = FALSE,
                       !.lockDelayTimer = 0,
                       !.lockResetCount = 0,
                       !.gravityAccumulator = 0,
                       !.lastWasTSpin = FALSE,
                       !.lastWasTSpinMini = FALSE,
                       !.lastMoveWasRotation = FALSE]

\* spawnPiece
spawnPiece(s, rs) ==
  LET type == Head(s.nextQueue)
      r == randomizerNext(s, rs)
      s1 == [r.state EXCEPT !.nextQueue = Append(Tail(s.nextQueue), r.piece)]
      spawnRow == getSpawnRow(type)
      spawnCol == SPAWN_COL
  IN IF ~isValidPosition(s1.board, type, 0, spawnRow, spawnCol)
       THEN emitEvent([s1 EXCEPT !.status = "GAME_OVER",
                                 !.currentPiece = Piece(type, 0, spawnRow, spawnCol)],
                      "game_over", 0)
       ELSE [s1 EXCEPT !.currentPiece = Piece(type, 0, spawnRow, spawnCol),
                       !.holdUsed = FALSE,
                       !.lockDelayActive = FALSE,
                       !.lockDelayTimer = 0,
                       !.lockResetCount = 0,
                       !.gravityAccumulator = 0,
                       !.lastWasTSpin = FALSE,
                       !.lastWasTSpinMini = FALSE,
                       !.lastMoveWasRotation = FALSE]

\* startLockDelay that never starts it
startLockDelayNever(s) == s

\* startLockDelay
startLockDelay(s) ==
  IF ~s.lockDelayActive
    THEN [s EXCEPT !.lockDelayActive = TRUE, !.lockDelayTimer = 0]
    ELSE s

\* resetLockDelay
resetLockDelay(s) ==
  IF s.lockDelayActive /\ s.lockResetCount < MAX_LOCK_RESETS
    THEN [s EXCEPT !.lockDelayTimer = 0, !.lockResetCount = @ + 1]
    ELSE s

\* applyGravity without this.lastMoveWasRotation = false
applyGravityKeepsRotation(s) ==
  IF s.currentPiece = NoPiece THEN s
  ELSE LET p == s.currentPiece
       IN IF isValidPosition(s.board, p.type, p.rotation, p.row + 1, p.col)
            THEN [s EXCEPT !.currentPiece.row = @ + 1]
            ELSE startLockDelay(s)

\* applyGravity
applyGravity(s) ==
  IF s.currentPiece = NoPiece THEN s
  ELSE LET p == s.currentPiece
       IN IF isValidPosition(s.board, p.type, p.rotation, p.row + 1, p.col)
            THEN [s EXCEPT !.currentPiece.row = @ + 1,
                           !.lastMoveWasRotation = FALSE]
            ELSE startLockDelay(s)

\* lockCurrentPiece, the end: completion check inside the if, else the spawn
CompleteOrSpawn(s, rs) ==
  IF isModeCompleted(s.mode, s.level, s.totalLines, s.elapsedMs)
    THEN emitEvent([s EXCEPT !.status = "COMPLETED"], "completed", 0)
    ELSE spawnPiece(s, rs)

\* the level raised without its event
LevelUpQuiet(s, newLevel) ==
  IF newLevel > s.level THEN [s EXCEPT !.level = newLevel] ELSE s

\* lockCurrentPiece: if (newLevel > this.level) { ... }
LevelUp(s, newLevel) ==
  IF newLevel > s.level
    THEN emitEvent([s EXCEPT !.level = newLevel], "level_up", newLevel)
    ELSE s

\* lockCurrentPiece: the body of if (clearResult.count > 0), up to the level
CountLines(s, count) ==
  LevelUp(emitEvent([s EXCEPT !.totalLines = @ + count], "line_clear", count),
          calculateLevel(s.mode, s.mode.startLevel, s.totalLines + count))

\* lockCurrentPiece, from the if on
AfterScore(s, count, rs) ==
  IF count > 0 THEN CompleteOrSpawn(CountLines(s, count), rs)
  ELSE spawnPiece(s, rs)

\* lockCurrentPiece: the scoring state and ClearResult of processLineClear
\* written to the game, with what the lock was
Scored(s, sc, isTSpin, isTSpinMini, rows) ==
  [s EXCEPT !.score = sc.state.score,
            !.combo = sc.state.combo,
            !.backToBack = sc.state.backToBack,
            !.lastClearType = sc.state.lastClearType,
            !.lastClear = [clearType |-> sc.result.clearType,
                           scoreAwarded |-> sc.result.scoreAwarded,
                           isBackToBack |-> sc.result.isBackToBack,
                           combo |-> sc.result.combo,
                           isTSpin |-> isTSpin,
                           isTSpinMini |-> isTSpinMini,
                           rows |-> rows,
                           piece |-> s.currentPiece]]

\* lockCurrentPiece, from processLineClear on
Score(s, clearResult, isTSpin, isTSpinMini, rs) ==
  AfterScore(
    Scored([s EXCEPT !.board = clearResult.grid],
           processLineClear([score |-> s.score, combo |-> s.combo,
                             backToBack |-> s.backToBack,
                             lastClearType |-> s.lastClearType],
                            clearResult.count, s.level, isTSpin, isTSpinMini),
           isTSpin, isTSpinMini, clearResult.rows),
    clearResult.count, rs)

\* lockCurrentPiece, from clearLines on: s.board holds the locked piece
ClearAndScore(s, rs) ==
  Score(s, clearLines(s.board),
        s.lastMoveWasRotation /\ s.lastWasTSpin,
        s.lastMoveWasRotation /\ s.lastWasTSpinMini, rs)

\* lockCurrentPiece
lockCurrentPiece(s, rs) ==
  IF s.currentPiece = NoPiece THEN s
  ELSE ClearAndScore(
         emitEvent([s EXCEPT !.board = lockPiece(@, s.currentPiece.type,
                                                 s.currentPiece.rotation,
                                                 s.currentPiece.row,
                                                 s.currentPiece.col),
                             !.lockCount = @ + 1],
                   "lock", 0),
         rs)

\* the while loop of tick, gravityAccumulator and gravityMs in microseconds
RECURSIVE GravityLoop(_, _)
GravityLoop(s, gravityMs) ==
  IF s.gravityAccumulator >= gravityMs
    THEN GravityLoop(
           applyGravity([s EXCEPT !.gravityAccumulator = @ - gravityMs]),
           gravityMs)
    ELSE s

\* tick that drops the call when the time is up
tickStoppedClock(s, deltaMs, rs) ==
  IF s.status # "PLAYING" \/ s.currentPiece = NoPiece THEN s
  ELSE LET s1 == [s EXCEPT !.elapsedMs = @ + deltaMs]
       IN IF isTimeExpired(s1.mode, s1.elapsedMs)
            THEN s
            ELSE LET gravityMs == getGravityInterval(s1.level)
                 IN IF s1.lockDelayActive
                      THEN LET s2 == [s1 EXCEPT !.lockDelayTimer = @ + deltaMs]
                           IN IF s2.lockDelayTimer >= LOCK_DELAY_MS
                                THEN lockCurrentPiece(s2, rs)
                                ELSE s2
                      ELSE GravityLoop(
                             [s1 EXCEPT !.gravityAccumulator = @ + deltaMs * 1000],
                             gravityMs)

\* tick that locks only once the timer exceeds the delay
tickPastDelay(s, deltaMs, rs) ==
  IF s.status # "PLAYING" \/ s.currentPiece = NoPiece THEN s
  ELSE LET s1 == [s EXCEPT !.elapsedMs = @ + deltaMs]
       IN IF isTimeExpired(s1.mode, s1.elapsedMs)
            THEN LET st == IF s1.mode.isCompletable THEN "GAME_OVER"
                                                    ELSE "COMPLETED"
                 IN emitEvent([s1 EXCEPT !.status = st],
                              IF st = "COMPLETED" THEN "completed"
                                                  ELSE "game_over", 0)
            ELSE LET gravityMs == getGravityInterval(s1.level)
                 IN IF s1.lockDelayActive
                      THEN LET s2 == [s1 EXCEPT !.lockDelayTimer = @ + deltaMs]
                           IN IF s2.lockDelayTimer > LOCK_DELAY_MS
                                THEN lockCurrentPiece(s2, rs)
                                ELSE s2
                      ELSE GravityLoop(
                             [s1 EXCEPT !.gravityAccumulator = @ + deltaMs * 1000],
                             gravityMs)

\* tick
tick(s, deltaMs, rs) ==
  IF s.status # "PLAYING" \/ s.currentPiece = NoPiece THEN s
  ELSE LET s1 == [s EXCEPT !.elapsedMs = @ + deltaMs]
       IN IF isTimeExpired(s1.mode, s1.elapsedMs)
            THEN LET st == IF s1.mode.isCompletable THEN "GAME_OVER"
                                                    ELSE "COMPLETED"
                 IN emitEvent([s1 EXCEPT !.status = st],
                              IF st = "COMPLETED" THEN "completed"
                                                  ELSE "game_over", 0)
            ELSE LET gravityMs == getGravityInterval(s1.level)
                 IN IF s1.lockDelayActive
                      THEN LET s2 == [s1 EXCEPT !.lockDelayTimer = @ + deltaMs]
                           IN IF s2.lockDelayTimer >= LOCK_DELAY_MS
                                THEN lockCurrentPiece(s2, rs)
                                ELSE s2
                      ELSE GravityLoop(
                             [s1 EXCEPT !.gravityAccumulator = @ + deltaMs * 1000],
                             gravityMs)

\* tryMove
tryMove(s, rowDelta, colDelta) ==
  IF s.currentPiece = NoPiece \/ s.status # "PLAYING"
    THEN [s EXCEPT !.ret = FALSE]
    ELSE LET p == s.currentPiece
             newRow == p.row + rowDelta
             newCol == p.col + colDelta
         IN IF isValidPosition(s.board, p.type, p.rotation, newRow, newCol)
              THEN LET s1 == resetLockDelay(
                               [s EXCEPT !.currentPiece.row = newRow,
                                         !.currentPiece.col = newCol,
                                         !.lastMoveWasRotation = FALSE])
                       s2 == IF ~isValidPosition(s1.board, p.type, p.rotation,
                                                 newRow + 1, newCol)
                               THEN startLockDelay(s1)
                               ELSE IF s1.lockDelayActive
                                      THEN [s1 EXCEPT !.lockDelayActive = FALSE]
                                      ELSE s1
                   IN [s2 EXCEPT !.ret = TRUE]
              ELSE [s EXCEPT !.ret = FALSE]

\* moveLeft without the status guard
moveLeftAnyStatus(s) ==
  [tryMove([s EXCEPT !.status = "PLAYING"], 0, -1) EXCEPT !.status = s.status]

moveLeft(s) == tryMove(s, 0, -1)

moveRight(s) == tryMove(s, 0, 1)

\* softDrop
softDrop(s) ==
  IF s.currentPiece = NoPiece \/ s.status # "PLAYING"
    THEN [s EXCEPT !.ret = FALSE]
    ELSE LET p == s.currentPiece
         IN IF isValidPosition(s.board, p.type, p.rotation, p.row + 1, p.col)
              THEN LET sc == scoreSoftDrop([score |-> s.score], 1)
                       s1 == [s EXCEPT !.currentPiece.row = @ + 1,
                                       !.score = sc.score,
                                       !.lastMoveWasRotation = FALSE]
                       s2 == IF ~isValidPosition(s1.board, p.type, p.rotation,
                                                 p.row + 2, p.col)
                               THEN startLockDelay(s1)
                               ELSE s1
                   IN [s2 EXCEPT !.ret = TRUE]
              ELSE [s EXCEPT !.ret = FALSE]

\* hardDrop that leaves lastMoveWasRotation as it is
hardDropKeepsRotation(s, rs) ==
  IF s.currentPiece = NoPiece \/ s.status # "PLAYING"
    THEN [s EXCEPT !.ret = FALSE]
    ELSE LET p == s.currentPiece
             ghostRow == getGhostRow(s.board, p.type, p.rotation, p.row, p.col)
             dropDistance == ghostRow - p.row
             sc == scoreHardDrop([score |-> s.score], dropDistance)
             s1 == emitEvent([s EXCEPT !.score = sc.score,
                                       !.currentPiece.row = ghostRow,
                                       !.ret = FALSE],
                             "hard_drop", dropDistance)
         IN lockCurrentPiece(s1, rs)

\* hardDrop (void: ret stays FALSE)
hardDrop(s, rs) ==
  IF s.currentPiece = NoPiece \/ s.status # "PLAYING"
    THEN [s EXCEPT !.ret = FALSE]
    ELSE LET p == s.currentPiece
             ghostRow == getGhostRow(s.board, p.type, p.rotation, p.row, p.col)
             dropDistance == ghostRow - p.row
             sc == scoreHardDrop([score |-> s.score], dropDistance)
             s1 == emitEvent([s EXCEPT !.score = sc.score,
                                       !.currentPiece.row = ghostRow,
                                       !.lastMoveWasRotation = FALSE,
                                       !.ret = FALSE],
                             "hard_drop", dropDistance)
         IN lockCurrentPiece(s1, rs)

\* tryRotation, once tryRotate has returned result
Rotated(s, result) ==
  IF result.ok
    THEN LET newRow == s.currentPiece.row + result.kickRow
             newCol == s.currentPiece.col + result.kickCol
             s1 == resetLockDelay(
                     [s EXCEPT !.currentPiece.rotation = result.newRotation,
                               !.currentPiece.col = newCol,
                               !.currentPiece.row = newRow,
                               !.lastMoveWasRotation = TRUE,
                               !.lastWasTSpin = result.isTSpin,
                               !.lastWasTSpinMini = result.isTSpinMini])
         IN [(IF ~isValidPosition(s.board, s.currentPiece.type,
                                  result.newRotation, newRow + 1, newCol)
                THEN startLockDelay(s1)
                ELSE IF s1.lockDelayActive
                       THEN [s1 EXCEPT !.lockDelayActive = FALSE]
                       ELSE s1) EXCEPT !.ret = TRUE]
    ELSE [s EXCEPT !.ret = FALSE]

\* tryRotation
tryRotation(s, direction) ==
  IF s.currentPiece = NoPiece \/ s.status # "PLAYING"
    THEN [s EXCEPT !.ret = FALSE]
    ELSE Rotated(s, tryRotate(s.board, s.currentPiece.type,
                              s.currentPiece.rotation, s.currentPiece.row,
                              s.currentPiece.col, direction))

rotateCW(s) == tryRotation(s, 1)

rotateCCW(s) == tryRotation(s, -1)

\* the tail of hold without this.holdUsed = true
HoldFinishUnused(s) ==
  emitEvent([s EXCEPT !.lockDelayActive = FALSE,
                      !.lockDelayTimer = 0,
                      !.lockResetCount = 0,
                      !.gravityAccumulator = 0,
                      !.lastMoveWasRotation = FALSE,
                      !.lastWasTSpin = FALSE,
                      !.lastWasTSpinMini = FALSE,
                      !.ret = TRUE],
            "hold", 0)

\* the tail of hold, after the swap or the first-hold spawn
HoldFinish(s) ==
  emitEvent([s EXCEPT !.holdUsed = TRUE,
                      !.lockDelayActive = FALSE,
                      !.lockDelayTimer = 0,
                      !.lockResetCount = 0,
                      !.gravityAccumulator = 0,
                      !.lastMoveWasRotation = FALSE,
                      !.lastWasTSpin = FALSE,
                      !.lastWasTSpinMini = FALSE,
                      !.ret = TRUE],
            "hold", 0)

\* hold
hold(s, rs) ==
  IF s.currentPiece = NoPiece \/ s.holdUsed \/ s.status # "PLAYING"
    THEN [s EXCEPT !.ret = FALSE]
    ELSE LET currentType == s.currentPiece.type
         IN IF s.holdPiece # NoHold
              THEN LET holdType == s.holdPiece
                       s1 == [s EXCEPT !.holdPiece = currentType]
                       spawnRow == getSpawnRow(holdType)
                   IN IF ~isValidPosition(s1.board, holdType, 0, spawnRow,
                                          SPAWN_COL)
                        THEN emitEvent([s1 EXCEPT !.status = "GAME_OVER",
                                                  !.ret = FALSE],
                                       "game_over", 0)
                        ELSE HoldFinish(
                               [s1 EXCEPT !.currentPiece =
                                  Piece(holdType, 0, spawnRow, SPAWN_COL)])
              ELSE HoldFinish(
                     spawnPiece([s EXCEPT !.holdPiece = currentType], rs))

\* togglePause that resumes from every status but PLAYING
togglePauseAnyStatus(s) ==
  IF s.status = "PLAYING" THEN [s EXCEPT !.status = "PAUSED", !.ret = FALSE]
  ELSE [s EXCEPT !.status = "PLAYING", !.ret = FALSE]

\* togglePause (void: ret stays FALSE)
togglePause(s) ==
  IF s.status = "PLAYING" THEN [s EXCEPT !.status = "PAUSED", !.ret = FALSE]
  ELSE IF s.status = "PAUSED" THEN [s EXCEPT !.status = "PLAYING", !.ret = FALSE]
  ELSE [s EXCEPT !.ret = FALSE]

\* GameState.getGhostRow
GhostRowOf(s) ==
  IF s.currentPiece = NoPiece THEN 0
  ELSE getGhostRow(s.board, s.currentPiece.type, s.currentPiece.rotation,
                   s.currentPiece.row, s.currentPiece.col)

\* new GameState(mode, rng): rs1 and rs2 are the values the two initial
\* shuffles take from the source src
NewGameState(mode, src) ==
  LET rng0 == [src |-> src, calls |-> 0]
      rs1 == CHOOSE rs \in NextRandoms(rng0) : TRUE
      rng1 == [src |-> src, calls |-> 6]
      rs2 == CHOOSE rs \in NextRandoms(rng1) : TRUE
      s0 == [board |-> createEmptyGrid,
             score |-> createScoringState.score,
             combo |-> createScoringState.combo,
             backToBack |-> createScoringState.backToBack,
             lastClearType |-> createScoringState.lastClearType,
             mode |-> mode,
             bag |-> fillBag(rs1),
             nextBag |-> fillBag(rs2),
             rng |-> [src |-> src, calls |-> 12],
             status |-> "PLAYING",
             currentPiece |-> NoPiece,
             holdPiece |-> NoHold,
             holdUsed |-> FALSE,
             nextQueue |-> <<>>,
             level |-> mode.startLevel,
             totalLines |-> 0,
             elapsedMs |-> 0,
             gravityAccumulator |-> 0,
             lockDelayTimer |-> 0,
             lockDelayActive |-> FALSE,
             lockResetCount |-> 0,
             lastWasTSpin |-> FALSE,
             lastWasTSpinMini |-> FALSE,
             lastMoveWasRotation |-> FALSE,
             events |-> <<>>,
             ret |-> FALSE,
             drawn |-> <<>>,
             lockCount |-> 0,
             lastClear |-> [clearType |-> "NONE", scoreAwarded |-> 0,
                            isBackToBack |-> FALSE, combo |-> -1,
                            isTSpin |-> FALSE, isTSpinMini |-> FALSE,
                            rows |-> {}, piece |-> NoPiece]]
      Fill[i \in 0..NEXT_QUEUE_SIZE] ==
        IF i = 0 THEN s0
        ELSE LET r == randomizerNext(Fill[i - 1], rs1)
             IN [r.state EXCEPT !.nextQueue = Append(@, r.piece)]
  IN spawnPiece(Fill[NEXT_QUEUE_SIZE], rs1)

(***************************************************************************)
(* The state.                                                              *)
(*   game   the GameState object: one field per field of the class, with   *)
(*          scoring.* and randomizer.* flattened and board = board.grid;   *)
(*          and, observed: events, the events the call in progress has     *)
(*          emitted and ret, the value it returns (both blank between      *)
(*          calls), drawn, the pieces next() returned since construction   *)
(*          or reset(), lockCount, the number of locks so far, lastClear,  *)
(*          what the last lock passed to and got from processLineClear     *)
(*   out    the last call: its name, its argument, the value it returned   *)
(*          and the events it emitted; for the stand-alone randomizer, the *)
(*          pieces the last call returned                                  *)
(*   calls  the number of calls the driver may still make, or NoLimit       *)
(*   mark   remembered configurations of the current piece (at most one)   *)
(***************************************************************************)
VARIABLES game, out, calls, mark

vars == <<game, out, calls, mark>>

(***************************************************************************)
(* Bounds of the model.                                                    *)
(***************************************************************************)
\* calls of operations in one behaviour that counts its calls
MaxCalls == 5
\* the clock, in ms, up to which tick is called in a behaviour that does not
MaxElapsedMs == 500
\* draws of the stand-alone randomizer
MaxDraws == 16

\* the deltaMs arguments of tick
DeltaMs == {250, 1000}

\* the deterministic random sources a game is constructed with
RngSources ==
  { <<RngDen - 1>>, <<0>>, <<1, 3, 5>>, <<2, 5>>, <<0, RngDen - 1>>,
    <<3, 1, 4, 1, 5, 2, 6>> }

\* the count arguments of preview
PreviewCounts == {0, 5, 7, 14, 20}

(***************************************************************************)
(* Mid-game positions.  As the repository's tests do (GameState.test.ts,   *)
(* 'game over'), a position is set up by constructing a game and writing   *)
(* its public fields: the board, totalLines with the level that            *)
(* calculateLevel gives for it, the score and elapsedMs.                   *)
(***************************************************************************)
\* the board whose column c is filled from row heights[c + 1] down
HeightsGrid(heights) ==
  [r \in 0..(BOARD_ROWS - 1) |->
    [c \in 0..(BOARD_COLS - 1) |->
       IF r >= heights[c + 1] THEN "I" ELSE Empty]]

\* a well over columns 3..6 between two walls, its floor at row 23, with a
\* shaft one column wide at column 6 (so that no row is complete)
WellBoard == HeightsGrid(<<16, 16, 16, 23, 23, 23, 40, 17, 17, 17>>)

\* the same well with a ledge two rows high over columns 3..4
LedgeBoard == HeightsGrid(<<16, 16, 16, 21, 21, 23, 40, 17, 17, 17>>)

\* the well with a step at column 5 that blocks the spawn of J, L, T and Z
\* but not of O
StepBoard == HeightsGrid(<<16, 16, 16, 24, 21, 20, 40, 17, 17, 17>>)

FilledCells(grid) ==
  Cardinality({rc \in (0..(BOARD_ROWS - 1)) \X (0..(BOARD_COLS - 1)) :
                 grid[rc[1]][rc[2]] # Empty})

\* the game constructed with (mode, src), then set up on grid with lines
\* lines cleared (each as a single, scoring 100) and elapsed ms on the clock
Position(mode, src, grid, lines, elapsed) ==
  LET g == NewGameState(mode, src)
  IN [g EXCEPT !.board = grid,
               !.totalLines = lines,
               !.level = calculateLevel(mode, mode.startLevel, lines),
               !.score = 100 * lines,
               !.elapsedMs = elapsed,
               !.lockCount = (FilledCells(grid) + BOARD_COLS * lines) \div 4]

(***************************************************************************)
(* The operations, as actions.  Each takes the whole call: the state after *)
(* the call is the value of the operation at the state before it.          *)
(***************************************************************************)
Terminal == {"GAME_OVER", "COMPLETED"}

\* what is kept of the result of a call: the per-call observations are blank
Settle(t) == [t EXCEPT !.events = <<>>, !.ret = FALSE]

\* the whole program state but the clock
Config(s) == [s EXCEPT !.elapsedMs = 0]

NoMark == {}

NoLimit == 0 - 1

\* a lock or a change of status forgets the mark; a tick that advances the
\* clock is noted in it
MarkAfter(t) ==
  IF t.lockCount # game.lockCount \/ t.status # game.status THEN NoMark
  ELSE IF t.elapsedMs # game.elapsedMs
         THEN {[m EXCEPT !.ticked = TRUE] : m \in mark}
         ELSE mark

\* the call op(arg) has returned t: what it returned and emitted goes to out
Call(op, arg, t) ==
  /\ game' = Settle(t)
  /\ calls' = IF calls = NoLimit THEN NoLimit ELSE calls - 1
  /\ mark' = MarkAfter(t)
  /\ out' = [op |-> op, arg |-> arg, ret |-> t.ret, events |-> t.events]

Tick ==
  /\ calls # 0
  /\ \E deltaMs \in DeltaMs : \E rs \in NextRandoms(game.rng) :
       /\ calls = NoLimit => game.elapsedMs + deltaMs <= MaxElapsedMs
       /\ \E t \in {tick(game, deltaMs, rs)} : Call("tick", deltaMs, t)

MoveLeft == calls # 0 /\ \E t \in {moveLeft(game)} : Call("moveLeft", 0, t)

MoveRight == calls # 0 /\ \E t \in {moveRight(game)} : Call("moveRight", 0, t)

SoftDrop == calls # 0 /\ \E t \in {softDrop(game)} : Call("softDrop", 0, t)

HardDrop ==
  /\ calls # 0
  /\ \E rs \in NextRandoms(game.rng) :
       \E t \in {hardDrop(game, rs)} : Call("hardDrop", 0, t)

RotateCW == calls # 0 /\ \E t \in {rotateCW(game)} : Call("rotateCW", 0, t)

RotateCCW == calls # 0 /\ \E t \in {rotateCCW(game)} : Call("rotateCCW", 0, t)

Hold ==
  /\ calls # 0
  /\ \E rs \in NextRandoms(game.rng) :
       \E t \in {hold(game, rs)} : Call("hold", 0, t)

TogglePause == calls # 0 /\ \E t \in {togglePause(game)} : Call("togglePause", 0, t)

Next ==
  \/ Tick
  \/ MoveLeft
  \/ MoveRight
  \/ SoftDrop
  \/ HardDrop
  \/ RotateCW
  \/ RotateCCW
  \/ Hold
  \/ TogglePause

\* the game g has been constructed and set up; n calls are to come
StartFrom(g, n) ==
  /\ game = Settle(g)
  /\ out = [op |-> "new", arg |-> 0, ret |-> g.ret, events |-> g.events]
  /\ calls = n
  /\ mark = NoMark

\* the state right after new GameState(mode, source), and mid-game positions
\* in the three modes
Positions ==
  { NewGameState(MARATHON_MODE, <<RngDen - 1>>),
    Position(MARATHON_MODE, <<1, 3, 5>>, LedgeBoard, 0, 0),
    Position(SPRINT_MODE, <<RngDen - 1>>, WellBoard, 38, 0),
    Position(ULTRA_MODE, <<0>>, StepBoard, 0, ULTRA_MODE.timeLimit - 1250) }

Init == \E g \in Positions : StartFrom(g, MaxCalls)

Spec == Init /\ [][Next]_vars

(***************************************************************************)
(* A piece on the ledge, played without a limit on the number of calls.    *)
(***************************************************************************)
\* note the configuration of a piece that has used all its lock-delay resets
Remember ==
  /\ mark = NoMark
  /\ game.status = "PLAYING"
  /\ game.lockDelayActive
  /\ game.lockResetCount = MAX_LOCK_RESETS
  /\ mark' = {[cfg |-> Config(game), ticked |-> FALSE]}
  /\ UNCHANGED <<game, out, calls>>

\* the player only ticks and translates
NextLedge ==
  \/ Tick
  \/ MoveLeft
  \/ MoveRight
  \/ Remember

InitLedge ==
  StartFrom(Position(MARATHON_MODE, <<0>>, LedgeBoard, 0, 0), NoLimit)

SpecLedge == InitLedge /\ [][NextLedge]_vars

(***************************************************************************)
(* The randomizer on its own: game holds the BagRandomizer object alone.   *)
(***************************************************************************)
RandNext ==
  /\ calls # 0
  /\ \E rs \in NextRandoms(game.rng) : \E r \in {randomizerNext(game, rs)} :
       /\ game' = r.state
       /\ out' = <<r.piece>>
  /\ calls' = calls - 1
  /\ mark' = mark

RandPreview ==
  /\ calls # 0
  /\ \E count \in PreviewCounts : out' = preview(game, count)
  /\ calls' = calls - 1
  /\ UNCHANGED <<game, mark>>

RandReset ==
  /\ calls # 0
  /\ \E rs1 \in NextRandoms(game.rng) :
       \E rs2 \in NextRandoms([game.rng EXCEPT !.calls = @ + 6]) :
         game' = reset(game, rs1, rs2)
  /\ out' = <<>>
  /\ calls' = calls - 1
  /\ mark' = mark

NextBag ==
  \/ RandNext
  \/ RandPreview
  \/ RandReset

InitBag ==
  \E src \in RngSources :
    /\ game = NewBagRandomizer(src)
    /\ out = <<>>
    /\ calls = MaxDraws
    /\ mark = NoMark

SpecBag == InitBag /\ [][NextBag]_vars

(***************************************************************************)
(* tryRotate on its own, as the repository's tests call it                 *)
(* (RotationSystem.test.ts): game holds a board and a piece on it, out the *)
(* direction and the result of the last call.  A rotation that succeeds    *)
(* moves the piece as GameState.tryRotation does.                          *)
(***************************************************************************)
\* the board of the T-spin test: rows 38 and 39 filled but for a T-shaped gap
SlotBoard ==
  [r \in 0..(BOARD_ROWS - 1) |->
    [c \in 0..(BOARD_COLS - 1) |->
       IF r >= 38 /\ <<r, c>> \notin {<<39, 4>>, <<38, 4>>, <<38, 3>>}
         THEN "I" ELSE Empty]]

\* the well with a notch at column 3, one column wide and three rows deep,
\* beside the wall of column 2
NotchBoard == HeightsGrid(<<16, 16, 16, 24, 21, 23, 40, 17, 17, 17>>)

RotationBoards ==
  {createEmptyGrid, WellBoard, LedgeBoard, StepBoard, NotchBoard, SlotBoard}

\* the origins a piece is put at: rows from above the stacks to the floor,
\* columns from two left of the board (the I piece's cells start at column 2)
RotationRows == 14..(BOARD_ROWS - 1)
RotationCols == (0 - 2)..(BOARD_COLS - 1)

\* tryRotate(board, type, rotation, row, col, direction) on the piece of s
TryRotate(direction) ==
  \E r \in {tryRotate(game.board, game.currentPiece.type,
                      game.currentPiece.rotation, game.currentPiece.row,
                      game.currentPiece.col, direction)} :
    /\ out' = [direction |-> direction, result |-> r]
    /\ game' = IF r.ok
                 THEN [game EXCEPT !.currentPiece.rotation = r.newRotation,
                                   !.currentPiece.row = @ + r.kickRow,
                                   !.currentPiece.col = @ + r.kickCol]
                 ELSE game
    /\ UNCHANGED <<calls, mark>>

TryRotateCW == TryRotate(1)

TryRotateCCW == TryRotate(0 - 1)

NextRotate ==
  \/ TryRotateCW
  \/ TryRotateCCW

InitRotate ==
  \E grid \in RotationBoards, type \in PieceType, rotation \in 0..3,
     row \in RotationRows, col \in RotationCols :
    /\ isValidPosition(grid, type, rotation, row, col)
    /\ game = [board |-> grid, currentPiece |-> Piece(type, rotation, row, col)]
    /\ out = [direction |-> 0, result |-> NoRotation]
    /\ calls = NoLimit
    /\ mark = NoMark

SpecRotate == InitRotate /\ [][NextRotate]_vars

(***************************************************************************)
(* A T piece to spin: a marathon game whose first piece is T, on a board    *)
(* where the T turns at once into a slot it rests in, and on a board where  *)
(* it turns between two blocks and can still fall.                          *)
(***************************************************************************)
\* the T, turned CCW at its spawn position, is kicked one column right into
\* a slot between column 4 and the wall of column 6, and rests there (column
\* 9 is empty, so that no row is complete)
SpinBoard == HeightsGrid(<<16, 16, 16, 21, 21, 24, 17, 17, 17, 40>>)

\* blocks left and right of the spawned T's top cell, over a floor with a
\* step at column 5: the T turned CCW stands between them, two rows above
\* the floor
CeilingBoard ==
  [r \in 0..(BOARD_ROWS - 1) |->
    [c \in 0..(BOARD_COLS - 1) |->
       IF <<r, c>> \in {<<19, 3>>, <<19, 5>>} THEN "I"
       ELSE HeightsGrid(<<16, 16, 16, 23, 23, 21, 40, 17, 17, 17>>)[r][c]]]

SpinPositions ==
  { Position(MARATHON_MODE, <<0, RngDen - 1>>, SpinBoard, 0, 0),
    Position(MARATHON_MODE, <<0, RngDen - 1>>, CeilingBoard, 0, 0) }

InitSpin == \E g \in SpinPositions : StartFrom(g, MaxCalls)

SpecSpin == InitSpin /\ [][Next]_vars

(***************************************************************************)
(* Scoring on its own, as the repository's tests call it (Scoring.test.ts):*)
(* game holds a ScoringState, out the arguments and the ClearResult of the *)
(* last processLineClear, mark the clear type of the most recent call that *)
(* cleared at least one line (none before the first such call).            *)
(***************************************************************************)
\* at most MaxClears calls of processLineClear on one ScoringState
MaxClears == 3

\* linesCleared: a lock completes at most four rows; five takes the default
\* branches of determineClearType
LineCounts == 0..5

ScoreLevels == {1, 3}

ProcessLineClear ==
  /\ calls # 0
  /\ \E linesCleared \in LineCounts, level \in ScoreLevels,
        isTSpin \in BOOLEAN, isTSpinMini \in BOOLEAN :
       \E r \in {processLineClear(game, linesCleared, level, isTSpin,
                                  isTSpinMini)} :
         /\ game' = r.state
         /\ out' = [op |-> "processLineClear", linesCleared |-> linesCleared,
                    level |-> level, isTSpin |-> isTSpin,
                    isTSpinMini |-> isTSpinMini, result |-> r.result]
         /\ mark' = IF linesCleared > 0 THEN {r.result.clearType} ELSE mark
  /\ calls' = calls - 1

NextScore == ProcessLineClear

InitScore ==
  /\ game = createScoringState
  /\ out = [op |-> "new", linesCleared |-> 0, level |-> 1, isTSpin |-> FALSE,
            isTSpinMini |-> FALSE,
            result |-> [clearType |-> "NONE", scoreAwarded |-> 0,
                        isBackToBack |-> FALSE, combo |-> 0 - 1]]
  /\ calls = MaxClears
  /\ mark = NoMark

SpecScore == InitScore /\ [][NextScore]_vars

(***************************************************************************)
(* The Board on its own, as the repository's tests use it (Board.test.ts): *)
(* the test writes rows of board.grid and calls clearLines.  game holds    *)
(* the grid, out the { count, rows } of the last call.                     *)
(***************************************************************************)
\* the number of rows the test writes, upwards from one row of the grid
StackRows == 4

RowKinds == {"full", "gapLeft", "gapRight", "one", "empty"}

\* a row as the tests write it: complete, complete but for its first or its
\* last cell, a single block, or untouched
RowOf(kind) ==
  [c \in 0..(BOARD_COLS - 1) |->
     CASE kind = "full" -> "I"
       [] kind = "gapLeft" -> (IF c = 0 THEN Empty ELSE "J")
       [] kind = "gapRight" -> (IF c = BOARD_COLS - 1 THEN Empty ELSE "L")
       [] kind = "one" -> (IF c = 4 THEN "T" ELSE Empty)
       [] OTHER -> Empty]

\* rows bottom - StackRows + 1 .. bottom written with the kinds, top to bottom
StackGrid(kinds, bottom) ==
  [r \in 0..(BOARD_ROWS - 1) |->
     IF r > bottom - StackRows /\ r <= bottom
       THEN RowOf(kinds[r - (bottom - StackRows)])
       ELSE EmptyRow]

\* the stack lies on the floor or against the top of the grid
StackBottoms == {BOARD_ROWS - 1, StackRows - 1}

ClearLines ==
  /\ calls # 0
  /\ \E r \in {clearLines(game.grid)} :
       /\ game' = [grid |-> r.grid]
       /\ out' = [op |-> "clearLines", count |-> r.count, rows |-> r.rows]
  /\ calls' = calls - 1
  /\ mark' = mark

NextBoard == ClearLines

InitBoard ==
  \E kinds \in [1..StackRows -> RowKinds], bottom \in StackBottoms :
    /\ game = [grid |-> StackGrid(kinds, bottom)]
    /\ out = [op |-> "new", count |-> 0, rows |-> {}]
    /\ calls = 2
    /\ mark = NoMark

SpecBoard == InitBoard /\ [][NextBoard]_vars

(***************************************************************************)
(* The three modes close to their ends, and a mode as a caller may         *)
(* configure one (GameModeConfig is an exported interface): the first      *)
(* piece is an I over the well, whose shaft takes it for four lines.       *)
(***************************************************************************)
\* a completable mode with a time limit
TIMED_SPRINT ==
  [type |-> "SPRINT", startLevel |-> 1, maxLevel |-> 1,
   timeLimit |-> 60 * 1000, lineTarget |-> 40, isCompletable |-> TRUE]

\* a clock far beyond every time limit
LongPlay == 10 * ULTRA_MODE.timeLimit

ModePositions ==
  { Position(MARATHON_MODE, <<RngDen - 1>>, WellBoard, 6, LongPlay),
    Position(MARATHON_MODE, <<RngDen - 1>>, WellBoard, 146, LongPlay),
    Position(SPRINT_MODE, <<RngDen - 1>>, WellBoard, 36, LongPlay),
    Position(ULTRA_MODE, <<RngDen - 1>>, WellBoard, 146,
             ULTRA_MODE.timeLimit - 1250),
    Position(TIMED_SPRINT, <<RngDen - 1>>, WellBoard, 32,
             TIMED_SPRINT.timeLimit - 1250) }

InitModes == \E g \in ModePositions : StartFrom(g, MaxCalls)

SpecModes == InitModes /\ [][Next]_vars

(***************************************************************************)
(* A new marathon whose second piece is an I.                              *)
(***************************************************************************)
InitQueue == StartFrom(NewGameState(MARATHON_MODE, <<3>>), MaxCalls)

SpecQueue == InitQueue /\ [][Next]_vars

(***************************************************************************)
(* A piece that rests on the ledge when it spawns, with the time of the    *)
(* activation of its lock delay noted: mark holds the value of elapsedMs   *)
(* at the end of the call that activated the lock delay, and whether a     *)
(* move or rotation has succeeded since; it is empty while the delay is    *)
(* not active.  elapsedMs advances by the deltaMs of every tick made in    *)
(* PLAYING, so elapsedMs - at is the sum of the deltaMs of these ticks     *)
(* since the activation.                                                   *)
(***************************************************************************)
SinceAfter(op, t) ==
  IF \/ ~t.lockDelayActive
     \/ t.lockCount # game.lockCount
     \/ t.status \in Terminal
     \/ t.currentPiece.type # game.currentPiece.type
    THEN NoMark
  ELSE IF ~game.lockDelayActive
    THEN {[at |-> t.elapsedMs, moved |-> FALSE]}
  ELSE IF op \in {"moveLeft", "moveRight", "softDrop", "rotateCW", "rotateCCW"}
          /\ t.ret
    THEN {[m EXCEPT !.moved = TRUE] : m \in mark}
  ELSE mark

\* the public operations of a game, and what a call of one makes of s
Operations ==
  {"tick", "moveLeft", "moveRight", "softDrop", "hardDrop", "rotateCW",
   "rotateCCW", "hold", "togglePause"}

Operate(s, op, arg, rs) ==
  CASE op = "tick" -> tick(s, arg, rs)
    [] op = "moveLeft" -> moveLeft(s)
    [] op = "moveRight" -> moveRight(s)
    [] op = "softDrop" -> softDrop(s)
    [] op = "hardDrop" -> hardDrop(s, rs)
    [] op = "rotateCW" -> rotateCW(s)
    [] op = "rotateCCW" -> rotateCCW(s)
    [] op = "hold" -> hold(s, rs)
    [] op = "togglePause" -> togglePause(s)

ArgsOf(op) == IF op = "tick" THEN DeltaMs ELSE {0}

\* one call of a public operation, the start of the lock delay noted
TimedCall ==
  /\ calls # 0
  /\ \E op \in Operations : \E arg \in ArgsOf(op) :
       \E rs \in NextRandoms(game.rng) :
         \E t \in {Operate(game, op, arg, rs)} :
           /\ game' = Settle(t)
           /\ calls' = calls - 1
           /\ mark' = SinceAfter(op, t)
           /\ out' = [op |-> op, arg |-> arg, ret |-> t.ret,
                      events |-> t.events]

\* a marathon, and an ULTRA game half a second before its time limit
TimedPositions ==
  { Position(MARATHON_MODE, <<0>>, LedgeBoard, 0, 0),
    Position(ULTRA_MODE, <<0>>, LedgeBoard, 0, ULTRA_MODE.timeLimit - 500) }

InitTimed == \E g \in TimedPositions : StartFrom(g, MaxCalls)

SpecTimed == InitTimed /\ [][TimedCall]_vars

(***************************************************************************)
(* Two games side by side: game, and a twin kept in mark.  Both are built  *)
(* with the same mode, their random sources are written differently but    *)
(* return the same values call after call, and every call is made on both. *)
(* The twin is kept as the call left it, with what it returned and emitted.*)
(***************************************************************************)
Twice(src) == src \o src

TwinPositions ==
  { <<NewGameState(MARATHON_MODE, <<1, 3, 5>>),
      NewGameState(MARATHON_MODE, Twice(<<1, 3, 5>>))>>,
    <<NewGameState(ULTRA_MODE, <<2, 5>>),
      NewGameState(ULTRA_MODE, Twice(<<2, 5>>))>>,
    <<Position(MARATHON_MODE, <<RngDen - 1>>, WellBoard, 6, 0),
      Position(MARATHON_MODE, Twice(<<RngDen - 1>>), WellBoard, 6, 0)>> }

InitTwin ==
  \E p \in TwinPositions :
    /\ game = Settle(p[1])
    /\ out = [op |-> "new", arg |-> 0, ret |-> p[1].ret,
              events |-> p[1].events]
    /\ calls = MaxCalls - 1
    /\ mark = {p[2]}

TwinCall ==
  /\ calls # 0
  /\ \E op \in Operations : \E arg \in ArgsOf(op) :
       \E rs \in NextRandoms(game.rng) :
         \E t \in {Operate(game, op, arg, rs)} :
           /\ game' = Settle(t)
           /\ calls' = calls - 1
           /\ mark' = UNION {{Operate(Settle(b), op, arg, rsb) :
                                 rsb \in NextRandoms(b.rng)} : b \in mark}
           /\ out' = [op |-> op, arg |-> arg, ret |-> t.ret,
                      events |-> t.events]

SpecTwin == InitTwin /\ [][TwinCall]_vars

(***************************************************************************)
(* ULTRA games a little before the time limit, with the game loop: the     *)
(* loop calls tick with deltaMs > 0 while the status is PLAYING, the       *)
(* player makes MaxPlayerCalls calls of any operation in between, and a    *)
(* paused game is resumed.  The loop's ticks and the resumption are not    *)
(* counted in calls, and they are made as long as they can be made.        *)
(***************************************************************************)
MaxPlayerCalls == 3

InitUltra ==
  \E g \in { Position(ULTRA_MODE, <<0>>, LedgeBoard, 0,
                      ULTRA_MODE.timeLimit - 1250),
             Position(ULTRA_MODE, <<RngDen - 1>>, WellBoard, 146,
                      ULTRA_MODE.timeLimit - 1250) } :
    StartFrom(g, MaxPlayerCalls)

LoopTick ==
  /\ game.status = "PLAYING"
  /\ \E deltaMs \in DeltaMs : \E rs \in NextRandoms(game.rng) :
       \E t \in {tick(game, deltaMs, rs)} :
         /\ game' = Settle(t)
         /\ out' = [op |-> "tick", arg |-> deltaMs, ret |-> t.ret,
                    events |-> t.events]
  /\ UNCHANGED <<calls, mark>>

Resume ==
  /\ game.status = "PAUSED"
  /\ \E t \in {togglePause(game)} :
       /\ game' = Settle(t)
       /\ out' = [op |-> "togglePause", arg |-> 0, ret |-> t.ret,
                  events |-> t.events]
  /\ UNCHANGED <<calls, mark>>

PlayerCall ==
  /\ calls > 0
  /\ \E op \in Operations : \E arg \in ArgsOf(op) :
       \E rs \in NextRandoms(game.rng) :
         \E t \in {Operate(game, op, arg, rs)} : Call(op, arg, t)

NextUltra ==
  \/ LoopTick
  \/ Resume
  \/ PlayerCall

\* WF_vars(LoopTick), with ENABLED <<LoopTick>>_vars written as the status being
\* PLAYING: a tick made in PLAYING advances elapsedMs, so it changes the state
LoopFair == []<>(game.status # "PLAYING") \/ []<><<LoopTick>>_vars

SpecUltra ==
  InitUltra /\ [][NextUltra]_vars /\ LoopFair /\ WF_vars(Resume)

(***************************************************************************)
(* A stack that ends just below the hidden rows: a tower over columns 1..2 *)
(* with its top at row 21, the first visible row but one, and a low floor. *)
(***************************************************************************)
TowerBoard == HeightsGrid(<<30, 21, 21, 30, 30, 30, 40, 30, 30, 30>>)

InitTower == StartFrom(Position(MARATHON_MODE, <<0>>, TowerBoard, 0, 0), MaxCalls)

SpecTower == InitTower /\ [][Next]_vars

(***************************************************************************)
(* Properties.                                                             *)
(***************************************************************************)
\* the operations that return a boolean
BoolOps == {"moveLeft", "moveRight", "softDrop", "rotateCW", "rotateCCW", "hold"}

\* the state the call just made has left, as the operation returned it: with
\* the value it returned and the events it emitted
Returned == [game' EXCEPT !.ret = out'.ret, !.events = out'.events]

\* the fields of the game a client can read
Observed(s) ==
  <<s.status, s.board, s.score, s.combo, s.backToBack, s.level, s.totalLines,
    s.elapsedMs, s.currentPiece, s.holdPiece, s.holdUsed, s.nextQueue>>

\* C1: a call made in a state whose status is GAME_OVER or COMPLETED, whichever
\* of the nine operations it is, leaves status, board, score, combo,
\* backToBack, level, totalLines, elapsedMs, currentPiece, holdPiece, holdUsed
\* and nextQueue as they are, and returns false if it returns a boolean; the
\* state it leaves is terminal again, so this holds for any number of calls
TerminalAbsorbing ==
  [][game.status \in Terminal =>
       /\ Observed(game') = Observed(game)
       /\ out'.op \in BoolOps => ~out'.ret]_vars

\* a sprint completed by a line clear, and a boolean-returning operation
\* (none of which locks a piece) called after completion
TerminalAbsorbingWitness ==
  /\ game.status = "COMPLETED"
  /\ game.mode = SPRINT_MODE
  /\ game.totalLines >= SPRINT_MODE.lineTarget
  /\ out.op \in BoolOps

\* C2: a piece whose lock delay has been activated is locked after finitely
\* many ticks, whatever the player does.  So no configuration of a marathon
\* game (its whole state but the clock, which a marathon never reads) with
\* the lock delay active can come back, the piece still unlocked and the
\* status PLAYING throughout, after a tick with deltaMs > 0: the calls that
\* bring it back could be repeated forever
EventualLock == \A m \in mark : m.ticked => Config(game) # m.cfg

\* the call leaves the same piece in play: nothing locked, nothing held
SamePiece(s, t) ==
  /\ t.lockCount = s.lockCount
  /\ t.holdPiece = s.holdPiece
  /\ t.status = "PLAYING"
  /\ s.status = "PLAYING"

\* C3: the reset count of a piece stays in 0..15, and once it is 15 no call
\* that leaves the same piece in play sets the lock-delay timer back: the
\* timer only counts up until the piece locks
LockResetCap ==
  [][/\ game'.lockResetCount \in 0..MAX_LOCK_RESETS
     /\ (SamePiece(game, game') /\ game.lockResetCount = MAX_LOCK_RESETS)
          => game'.lockDelayTimer >= game.lockDelayTimer]_vars

\* C4: the draws 7k+1 .. 7k+7 since construction or the last reset are the
\* seven piece types, each once (and the draws of the bag in progress are
\* distinct), whatever previews were made between them
BagFairness ==
  \A i, j \in 1..Len(game.drawn) :
    (i < j /\ (i - 1) \div 7 = (j - 1) \div 7) => game.drawn[i] # game.drawn[j]

\* two whole bags have been drawn since a reset, a preview among the calls
BagFairnessWitness ==
  /\ Len(game.drawn) = 14
  /\ game.rng.calls = 30
  /\ game.rng.src = <<3, 1, 4, 1, 5, 2, 6>>
  /\ calls = 0

\* hold() called in state s returns true
HoldReturnsTrue(s) == \A rs \in NextRandoms(s.rng) : hold(s, rs).ret

\* the held piece of s cannot be placed at its spawn position
HeldBlocked(s) ==
  /\ s.holdPiece # NoHold
  /\ ~isValidPosition(s.board, s.holdPiece, 0, getSpawnRow(s.holdPiece),
                      SPAWN_COL)

\* hold() called in state s returns true, or it is a swap whose held piece
\* cannot be placed: then it returns false and the game is over
HoldAccepted(s) ==
  \A rs \in NextRandoms(s.rng) :
    \/ hold(s, rs).ret
    \/ HeldBlocked(s) /\ hold(s, rs).status = "GAME_OVER"

\* hold is usable once per piece, said of the call just made; again says
\* what "hold succeeds again" is of the state a lock has left
HoldRule(again) ==
  /\ (game.holdUsed /\ out'.op = "hold") => Returned = game
  /\ (out'.op = "hold" /\ out'.ret) => game'.holdUsed
  /\ (game.holdUsed /\ game'.lockCount = game.lockCount) => game'.holdUsed
  /\ (game'.lockCount # game.lockCount /\ game'.status = "PLAYING")
       => ~game'.holdUsed /\ again

\* C5: a hold that returns true sets holdUsed; while holdUsed, hold returns
\* false and changes nothing, and no call that does not lock the piece clears
\* holdUsed; a lock that spawns the next piece clears it and hold() then
\* returns true
HoldOncePerPiece == [][HoldRule(HoldReturnsTrue(game'))]_vars

\* C5, amended: as above, but after the lock hold() returns true unless it is
\* a swap whose held piece is blocked at its spawn position, which returns
\* false and ends the game
HoldOncePerPieceOrOver == [][HoldRule(HoldAccepted(game'))]_vars

\* a piece was held, and the piece after it has locked: hold is free again
HoldOncePerPieceWitness ==
  /\ game.status = "PLAYING"
  /\ game.holdPiece # NoHold
  /\ ~game.holdUsed
  /\ HoldReturnsTrue(game)

\* C6: a hold() that returns true leaves holdPiece = the former current type,
\* holdUsed true and the lock-delay flag, timer, reset count, gravity
\* accumulator and T-spin flags cleared; with nothing held before, the new
\* current piece is the former front of nextQueue and the queue has advanced
\* by one; with a piece held before, the new current piece is that piece at
\* column 3, row 18 for I else 19, rotation 0, and nextQueue is unchanged
HoldEffect ==
  [][(out'.op = "hold" /\ out'.ret) =>
       /\ game'.holdPiece = game.currentPiece.type
       /\ game'.holdUsed
       /\ ~game'.lockDelayActive
       /\ game'.lockDelayTimer = 0
       /\ game'.lockResetCount = 0
       /\ game'.gravityAccumulator = 0
       /\ ~game'.lastWasTSpin /\ ~game'.lastWasTSpinMini
       /\ game.holdPiece = NoHold =>
            /\ game'.currentPiece.type = Head(game.nextQueue)
            /\ Len(game'.nextQueue) = Len(game.nextQueue)
            /\ SubSeq(game'.nextQueue, 1, Len(game'.nextQueue) - 1)
                 = Tail(game.nextQueue)
       /\ game.holdPiece # NoHold =>
            /\ game'.currentPiece =
                 Piece(game.holdPiece, 0,
                       IF game.holdPiece = "I" THEN 18 ELSE 19, 3)
            /\ game'.nextQueue = game.nextQueue]_vars

\* after a swap: the first piece (I) is back in play at its spawn position,
\* the third (T) is held
HoldEffectWitness ==
  /\ game.status = "PLAYING"
  /\ game.holdUsed
  /\ game.holdPiece = "T"
  /\ game.currentPiece = Piece("I", 0, 18, 3)
  /\ game.lockCount > 0

\* the number of game_over events among events
GameOverEvents(events) ==
  Cardinality({i \in 1..Len(events) : events[i].type = "game_over"})

\* type cannot be placed at its spawn position on grid
SpawnBlocked(grid, type) ==
  ~isValidPosition(grid, type, 0, IF type = "I" THEN 18 ELSE 19, 3)

\* the call just made had to place a piece that did not fit: the queue front
\* after a lock that did not complete the mode, the queue front on a first
\* hold, or the held piece on a swap
MustSpawnBlocked ==
  \/ /\ game'.lockCount # game.lockCount
     /\ game'.status # "COMPLETED"
     /\ SpawnBlocked(game'.board, Head(game.nextQueue))
  \/ /\ out'.op = "hold"
     /\ game.status = "PLAYING" /\ ~game.holdUsed
     /\ IF game.holdPiece = NoHold
          THEN SpawnBlocked(game.board, Head(game.nextQueue))
          ELSE SpawnBlocked(game.board, game.holdPiece)

\* C7: a call that has to place a piece at a spawn position that is not valid
\* leaves status GAME_OVER, has emitted exactly one game_over event and leaves
\* a current piece; and no call leaves status PLAYING with the current piece
\* at a position that is not valid
BlockedSpawnEndsGame ==
  [][/\ MustSpawnBlocked =>
          /\ game'.status = "GAME_OVER"
          /\ GameOverEvents(out'.events) = 1
          /\ game'.currentPiece # NoPiece
     /\ game'.status = "PLAYING" =>
          isValidPosition(game'.board, game'.currentPiece.type,
                          game'.currentPiece.rotation, game'.currentPiece.row,
                          game'.currentPiece.col)]_vars

\* the game ended on a swap: the held piece did not fit, so the piece in play
\* stayed and its type went to holdPiece
BlockedSpawnEndsGameWitness ==
  /\ game.status = "GAME_OVER"
  /\ game.holdPiece = game.currentPiece.type
  /\ game.lockCount > 0

\* C8: togglePause turns PLAYING into PAUSED and PAUSED into PLAYING, changing
\* nothing else, and changes nothing in another status; in status PAUSED
\* every other operation leaves the whole state as it is and returns false
PauseInert ==
  [][/\ out'.op = "togglePause" =>
          Returned = [game EXCEPT !.status = CASE @ = "PLAYING" -> "PAUSED"
                                              [] @ = "PAUSED" -> "PLAYING"
                                              [] OTHER -> @]
     /\ (game.status = "PAUSED" /\ out'.op # "togglePause") =>
          Returned = game]_vars

\* tick called in a game paused with the lock delay running
PauseInertWitness ==
  /\ game.status = "PAUSED"
  /\ game.lockDelayActive
  /\ game.lockDelayTimer > 0
  /\ out.op = "tick"

\* row is the lowest row the current piece of s reaches by one-row descents
\* through valid positions
IsGhostRow(s, row) ==
  /\ row >= s.currentPiece.row
  /\ \A q \in s.currentPiece.row..row :
       isValidPosition(s.board, s.currentPiece.type, s.currentPiece.rotation,
                       q, s.currentPiece.col)
  /\ ~isValidPosition(s.board, s.currentPiece.type, s.currentPiece.rotation,
                      row + 1, s.currentPiece.col)

\* C9: hardDrop in status PLAYING locks the piece, in the same call and
\* whatever the lock-delay state, at its ghost row: the piece locked is the
\* current piece at that row, the board is the former board with that piece
\* written and the complete lines cleared, the score grows by twice the
\* distance plus what the lock's line clear awards, and on return the current
\* piece is the former queue front, newly spawned, or the status is terminal
HardDropLocks ==
  [][(game.status = "PLAYING" /\ out'.op = "hardDrop") =>
       \E ghostRow \in 0..(BOARD_ROWS - 1) :
         LET p == game.currentPiece
         IN /\ IsGhostRow(game, ghostRow)
            /\ game'.lockCount = game.lockCount + 1
            /\ game'.lastClear.piece = [p EXCEPT !.row = ghostRow]
            /\ game'.board =
                 clearLines(lockPiece(game.board, p.type, p.rotation,
                                      ghostRow, p.col)).grid
            /\ game'.score = game.score + 2 * (ghostRow - p.row)
                               + game'.lastClear.scoreAwarded
            /\ \/ game'.status \in Terminal
               \/ /\ game'.status = "PLAYING"
                  /\ game'.currentPiece =
                       Piece(Head(game.nextQueue), 0,
                             IF Head(game.nextQueue) = "I" THEN 18 ELSE 19,
                             3)]_vars

\* a piece dropped from the top of the empty board to its floor, before any
\* tick had started the lock delay; the next piece is in play
HardDropLocksWitness ==
  /\ game.status = "PLAYING"
  /\ out.op = "hardDrop"
  /\ game.lockCount = 1
  /\ game.elapsedMs = 0
  /\ game.lastClear.piece.row >= BOARD_ROWS - 4
  /\ game.score = 2 * (game.lastClear.piece.row - 18)

\* the three translations, each with its (row, column) step
Translations ==
  [moveLeft |-> [dr |-> 0, dc |-> 0 - 1],
   moveRight |-> [dr |-> 0, dc |-> 1],
   softDrop |-> [dr |-> 1, dc |-> 0]]

\* the translation just called has returned true iff its target position is
\* valid; then the piece is one cell further and the score has grown by 1 for
\* softDrop and by 0 for the others; else nothing at all has changed
AllOrNothing ==
  LET p == game.currentPiece
      m == Translations[out'.op]
      ok == isValidPosition(game.board, p.type, p.rotation,
                            p.row + m.dr, p.col + m.dc)
  IN /\ out'.ret = ok
     /\ ok => /\ game'.currentPiece =
                   [p EXCEPT !.row = @ + m.dr, !.col = @ + m.dc]
              /\ game'.score =
                   game.score + (IF out'.op = "softDrop" THEN 1 ELSE 0)
     /\ ~ok => Returned = game

\* C10: moveLeft, moveRight and softDrop move the piece by exactly one cell
\* and return true iff the target position is valid on the board; otherwise
\* they return false and change nothing; softDrop scores 1 per success, the
\* others never score
TranslationsAllOrNothing ==
  [][out'.op \in DOMAIN Translations => AllOrNothing]_vars

\* C10, amended: the same in status PLAYING (in any other status the
\* translations return false and change nothing, whatever the target)
TranslationsAllOrNothingPlaying ==
  [][out'.op \in DOMAIN Translations =>
       IF game.status = "PLAYING" THEN AllOrNothing ELSE Returned = game]_vars

\* after two successful soft drops the piece stands against the left wall:
\* moveLeft is refused, softDrop is not
TranslationsWitness ==
  /\ game.status = "PLAYING"
  /\ game.lockCount = 0
  /\ game.score = 2
  /\ ~moveLeft(game).ret
  /\ softDrop(game).ret

\* the kick table tryRotate reads for a piece of this type
KickTable(type, from, to) ==
  IF type = "I" THEN I_KICKS(from, to) ELSE JLSTZ_KICKS(from, to)

\* test i of kicks fits: the piece p of s, turned to state to and shifted by
\* the offset, is at a valid position
Fits(s, to, kicks, i) ==
  isValidPosition(s.board, s.currentPiece.type, to,
                  s.currentPiece.row - kicks[i][2],
                  s.currentPiece.col + kicks[i][1])

\* the result r of tryRotate on the piece of s, for the tests kicks towards
\* state to, is the first test that fits, or none if no test fits
FirstFit(s, to, kicks, r) ==
  /\ Len(kicks) = 5
  /\ kicks[1] = <<0, 0>>
  /\ r.ok <=> \E i \in 1..5 : Fits(s, to, kicks, i)
  /\ r.ok =>
       /\ r.newRotation = to
       /\ \E i \in 1..5 :
            /\ Fits(s, to, kicks, i)
            /\ \A j \in 1..(i - 1) : ~Fits(s, to, kicks, j)
            /\ r.kickCol = kicks[i][1]
            /\ s.currentPiece.row + r.kickRow = s.currentPiece.row - kicks[i][2]
       /\ isValidPosition(s.board, s.currentPiece.type, r.newRotation,
                          s.currentPiece.row + r.kickRow,
                          s.currentPiece.col + r.kickCol)

\* the state a rotation by direction goes to
ToState(rotation, direction) ==
  IF direction = 1 THEN (rotation + 1) % 4 ELSE (rotation + 3) % 4

\* C11: tryRotate returns none for the O piece; for any other piece it takes
\* the first of the 5 tests of the table entry (from -> to), the first test
\* being (0,0), whose shifted origin in state to is valid, and reports to and
\* the offset to that position; it returns none iff no test fits; the board
\* is unchanged; a T turned CW from state 0 where state 1 fits in place gives
\* state 1 with zero offset
TryRotateFirstFit ==
  [][/\ game'.board = game.board
     /\ game.currentPiece.type = "O" => ~out'.result.ok
     /\ game.currentPiece.type # "O" =>
          FirstFit(game,
                   ToState(game.currentPiece.rotation, out'.direction),
                   KickTable(game.currentPiece.type,
                             game.currentPiece.rotation,
                             ToState(game.currentPiece.rotation,
                                     out'.direction)),
                   out'.result)
     /\ ( /\ game.currentPiece.type = "T"
          /\ game.currentPiece.rotation = 0
          /\ out'.direction = 1
          /\ isValidPosition(game.board, "T", 1, game.currentPiece.row,
                             game.currentPiece.col) ) =>
          /\ out'.result.ok
          /\ out'.result.newRotation = 1
          /\ out'.result.kickCol = 0
          /\ out'.result.kickRow = 0]_vars

\* a rotation that took the fifth test: the first four did not fit
TryRotateFirstFitWitness ==
  /\ out.result.ok
  /\ Abs(out.result.kickRow) = 2
  /\ out.result.kickCol # 0

\* the verdict of the 3-corner rule on the cell (pivotRow, pivotCol) for a T
\* in state rotation that got there by the kick (kickCol, kickRow)
CornerVerdict(grid, rotation, pivotRow, pivotCol, kickCol, kickRow) ==
  LET topLeft == getCell(grid, pivotRow - 1, pivotCol - 1) # Empty
      topRight == getCell(grid, pivotRow - 1, pivotCol + 1) # Empty
      bottomLeft == getCell(grid, pivotRow + 1, pivotCol - 1) # Empty
      bottomRight == getCell(grid, pivotRow + 1, pivotCol + 1) # Empty
      occupied == Cardinality({k \in {<<1, topLeft>>, <<2, topRight>>,
                                      <<3, bottomLeft>>, <<4, bottomRight>>} :
                                 k[2]})
      front == CASE rotation = 0 -> topLeft /\ topRight
                 [] rotation = 1 -> topRight /\ bottomRight
                 [] rotation = 2 -> bottomLeft /\ bottomRight
                 [] rotation = 3 -> topLeft /\ bottomLeft
  IN IF occupied < 3 THEN "none"
     ELSE IF front THEN "full"
     ELSE IF Abs(kickCol) > 1 \/ Abs(kickRow) > 1 THEN "full"
     ELSE "mini"

\* what a rotation result says of the T-spin
Verdict(r) ==
  IF ~r.isTSpin /\ ~r.isTSpinMini THEN "none"
  ELSE IF r.isTSpin /\ ~r.isTSpinMini THEN "full"
  ELSE IF r.isTSpin /\ r.isTSpinMini THEN "mini"
  ELSE "other"

\* C12: a successful rotation of a T is classified by the 3-corner rule on
\* the diagonal neighbours of the T's pivot cell, origin + (1,1) at the
\* kicked position, in each of the four resulting states
TSpinAtPivot ==
  [][(game.currentPiece.type = "T" /\ out'.result.ok) =>
       Verdict(out'.result) =
         CornerVerdict(game.board, game'.currentPiece.rotation,
                       game'.currentPiece.row + 1, game'.currentPiece.col + 1,
                       out'.result.kickCol, out'.result.kickRow)]_vars

\* the T-spin credit the current piece of s holds: what a lock would pass on
Credit(s) ==
  [isTSpin |-> s.lastMoveWasRotation /\ s.lastWasTSpin,
   isTSpinMini |-> s.lastMoveWasRotation /\ s.lastWasTSpinMini]

NoCredit == [isTSpin |-> FALSE, isTSpinMini |-> FALSE]

\* the flags the rotation by direction reports in state s
Reported(s, direction) ==
  LET r == tryRotate(s.board, s.currentPiece.type, s.currentPiece.rotation,
                     s.currentPiece.row, s.currentPiece.col, direction)
  IN [isTSpin |-> r.isTSpin, isTSpinMini |-> r.isTSpinMini]

\* the flags the lock just made was scored with
ScoredWith == [isTSpin |-> game'.lastClear.isTSpin,
               isTSpinMini |-> game'.lastClear.isTSpinMini]

\* the call just made has locked the piece
Locked == game'.lockCount # game.lockCount

\* the credit after the call just made, a call that did not lock the piece
CreditStep ==
  /\ (out'.op \in {"rotateCW", "rotateCCW"} /\ out'.ret) =>
       Credit(game') =
         Reported(game, IF out'.op = "rotateCW" THEN 1 ELSE 0 - 1)
  /\ (out'.op \in DOMAIN Translations /\ out'.ret) => Credit(game') = NoCredit
  /\ (out'.op = "tick" /\ game'.currentPiece.row # game.currentPiece.row) =>
       Credit(game') = NoCredit
  /\ (out'.op = "tick" /\ game'.currentPiece = game.currentPiece) =>
       Credit(game') = Credit(game)
  /\ ( /\ out'.op \in DOMAIN Translations \cup {"rotateCW", "rotateCCW"}
       /\ ~out'.ret ) => Credit(game') = Credit(game)
  /\ (out'.op = "hold" /\ out'.ret) => Credit(game') = NoCredit

\* C13: a lock is scored with the credit the piece holds, and a hard drop
\* that moves the piece with none; the credit is what the last successful
\* rotation reported, a successful moveLeft, moveRight, softDrop or gravity
\* descent cancels it, a failed move or rotation and a tick without descent
\* leave it, and a piece spawned after a lock or by hold starts with none
TSpinCredit ==
  [][IF Locked
       THEN /\ out'.op = "tick" => ScoredWith = Credit(game)
            /\ ScoredWith.isTSpin => Credit(game).isTSpin
            /\ ScoredWith.isTSpinMini => Credit(game).isTSpinMini
            /\ game'.lastClear.piece.row # game.currentPiece.row =>
                 ScoredWith = NoCredit
            /\ game'.status = "PLAYING" => Credit(game') = NoCredit
       ELSE CreditStep]_vars

\* a T locked by the lock delay and scored as a T-spin mini
TSpinCreditWitness ==
  /\ out.op = "tick"
  /\ game.lastClear.piece.type = "T"
  /\ game.lastClear.isTSpinMini
  /\ game.lastClear.clearType = "TSPIN_ZERO"


\* the base scores of the line clears (a lock that clears nothing and is no
\* T-spin has none)
BaseOf(clearType) ==
  CASE clearType = "SINGLE" -> 100
    [] clearType = "DOUBLE" -> 300
    [] clearType = "TRIPLE" -> 500
    [] clearType = "TETRIS" -> 800
    [] clearType = "TSPIN_MINI" -> 100
    [] clearType = "TSPIN_ZERO" -> 400
    [] clearType = "TSPIN_SINGLE" -> 800
    [] clearType = "TSPIN_DOUBLE" -> 1200
    [] clearType = "TSPIN_TRIPLE" -> 1600
    [] OTHER -> 0

\* C14: processLineClear on a state with no active combo (combo = -1) and no
\* active back-to-back (backToBack = -1) awards exactly base(clearType) x
\* level, at every level, and adds exactly the awarded amount to state.score.
BaseScore ==
  [][/\ game'.score = game.score + out'.result.scoreAwarded
     /\ (game.combo = 0 - 1 /\ game.backToBack = 0 - 1)
          => out'.result.scoreAwarded
               = BaseOf(out'.result.clearType) * out'.level]_vars

\* a TSPIN_ZERO at level 3 scored 1200 on a state whose combo and chain an
\* earlier single and an empty lock had left inactive
BaseScoreWitness ==
  /\ out.op = "processLineClear"
  /\ out.result.clearType = "TSPIN_ZERO"
  /\ out.level = 3
  /\ out.result.scoreAwarded = 1200
  /\ game.combo = 0
  /\ game.backToBack = 0 - 1
  /\ game.score > 1200

Difficult == {"TETRIS", "TSPIN_SINGLE", "TSPIN_DOUBLE", "TSPIN_TRIPLE",
              "TSPIN_MINI"}

\* the most recent earlier clear with at least one line was difficult
Chained == mark # NoMark /\ mark \subseteq Difficult

\* 50 x combo x level, with the combo the call has left
ComboBonus == IF game'.combo > 0 THEN 50 * game'.combo * out'.level ELSE 0

\* C15: over any sequence of processLineClear calls, a clear reports
\* isBackToBack exactly when it is difficult and the most recent earlier clear
\* with at least one line was difficult too (so not the first one, not after
\* a non-difficult clear with lines, but still after locks without lines); the
\* x1.5 floored multiplier is applied exactly then, to the base score only,
\* and the combo bonus is added unmultiplied.
BackToBackBonus ==
  [][/\ out'.result.isBackToBack
          <=> (out'.result.clearType \in Difficult /\ Chained)
     /\ out'.result.scoreAwarded
          = (IF out'.result.isBackToBack
               THEN (3 * BaseOf(out'.result.clearType) * out'.level) \div 2
               ELSE BaseOf(out'.result.clearType) * out'.level)
            + ComboBonus]_vars

\* a tetris, a lock without lines, and a second tetris at level 1 that is
\* back-to-back: 1200, and no combo bonus
BackToBackBonusWitness ==
  /\ out.op = "processLineClear"
  /\ out.result.clearType = "TETRIS"
  /\ out.result.isBackToBack
  /\ out.level = 1
  /\ out.result.scoreAwarded = 1200
  /\ game.combo = 0

\* C16: a difficult clear takes state.backToBack from -1 to 0 when no chain
\* was active, and up by exactly 1 otherwise.
BackToBackSteps ==
  [][out'.result.clearType \in Difficult
       => game'.backToBack = (IF game.backToBack = 0 - 1 THEN 0
                              ELSE game.backToBack + 1)]_vars

\* C17: combo is -1 initially; a lock that clears no line and is no T-spin
\* resets it to -1 and awards 0; every other lock raises it by exactly 1,
\* reports it, and adds 50 x combo x level with the raised combo to the
\* (possibly back-to-back) base score.
ComboSteps ==
  [][/\ out.op = "new" => game.combo = 0 - 1
     /\ IF out'.linesCleared = 0 /\ ~out'.isTSpin /\ ~out'.isTSpinMini
          THEN /\ game'.combo = 0 - 1
               /\ out'.result.combo = 0 - 1
               /\ out'.result.scoreAwarded = 0
          ELSE /\ game'.combo = game.combo + 1
               /\ out'.result.combo = game.combo + 1
               /\ out'.result.scoreAwarded
                    = (IF out'.result.isBackToBack
                         THEN (3 * BaseOf(out'.result.clearType) * out'.level)
                                \div 2
                         ELSE BaseOf(out'.result.clearType) * out'.level)
                      + 50 * (game.combo + 1) * out'.level]_vars

\* three consecutive singles at level 1: 100, 150, 200
ComboStepsWitness ==
  /\ out.op = "processLineClear"
  /\ out.result.clearType = "SINGLE"
  /\ out.level = 1
  /\ out.result.scoreAwarded = 200
  /\ game.combo = 2
  /\ game.score = 450

\* C18: a TSPIN_ZERO leaves state.backToBack unchanged, is never back-to-back
\* and never multiplied; it raises combo by 1 and awards 400 x level plus the
\* combo bonus.
TSpinZeroFrame ==
  [][out'.result.clearType = "TSPIN_ZERO"
       => /\ game'.backToBack = game.backToBack
          /\ ~out'.result.isBackToBack
          /\ game'.combo = game.combo + 1
          /\ out'.result.scoreAwarded
               = 400 * out'.level + 50 * (game.combo + 1) * out'.level
          /\ game'.score = game.score + out'.result.scoreAwarded]_vars

\* a TSPIN_ZERO scored while a back-to-back chain and a combo were active
TSpinZeroFrameWitness ==
  /\ out.op = "processLineClear"
  /\ out.result.clearType = "TSPIN_ZERO"
  /\ game.backToBack >= 1
  /\ game.combo >= 1

\* the clear type of a lock without a spin flag
PlainClear(linesCleared) ==
  CASE linesCleared = 0 -> "NONE"
    [] linesCleared = 1 -> "SINGLE"
    [] linesCleared = 2 -> "DOUBLE"
    [] linesCleared = 3 -> "TRIPLE"
    [] linesCleared >= 4 -> "TETRIS"

\* the clear type of a spin that is not rated as a mini
SpinClear(linesCleared) ==
  CASE linesCleared = 0 -> "TSPIN_ZERO"
    [] linesCleared = 1 -> "TSPIN_SINGLE"
    [] linesCleared = 2 -> "TSPIN_DOUBLE"
    [] linesCleared >= 3 -> "TSPIN_TRIPLE"

\* C19 as stated: a mini with 0 or 1 line is a TSPIN_MINI.
ClearTypeMiniUpToOne ==
  out.op = "processLineClear"
    => out.result.clearType
         = (IF ~out.isTSpin /\ ~out.isTSpinMini THEN PlainClear(out.linesCleared)
            ELSE IF out.isTSpinMini /\ out.linesCleared <= 1 THEN "TSPIN_MINI"
            ELSE SpinClear(out.linesCleared))

\* C19: determineClearType is total over linesCleared >= 0 and both flags:
\* without a spin flag 0, 1, 2, 3, >= 4 lines give NONE, SINGLE, DOUBLE,
\* TRIPLE, TETRIS; with a spin flag, a mini with exactly 1 line gives
\* TSPIN_MINI, and otherwise 0, 1, 2, >= 3 lines give TSPIN_ZERO,
\* TSPIN_SINGLE, TSPIN_DOUBLE, TSPIN_TRIPLE (a mini with 0 lines included).
ClearTypeTable ==
  out.op = "processLineClear"
    => out.result.clearType
         = (IF ~out.isTSpin /\ ~out.isTSpinMini THEN PlainClear(out.linesCleared)
            ELSE IF out.isTSpinMini /\ out.linesCleared = 1 THEN "TSPIN_MINI"
            ELSE SpinClear(out.linesCleared))

\* a mini that cleared no line was rated TSPIN_ZERO
ClearTypeTableWitness ==
  /\ out.op = "processLineClear"
  /\ out.isTSpinMini
  /\ out.linesCleared = 0
  /\ out.result.clearType = "TSPIN_ZERO"

\* the rows of grid in which all 10 columns are non-empty
CompleteRows(grid) ==
  {r \in 0..39 : \A c \in 0..9 : grid[r][c] # Empty}

\* the number of the rows in cleared that lie below row r
Below(cleared, r) == Cardinality({k \in cleared : k > r})

\* after and result are what clearLines makes of the grid before, whose
\* complete rows are cleared
Compacted(before, cleared, after, result) ==
  /\ result.rows = cleared
  /\ result.count = Cardinality(cleared)
  /\ DOMAIN after = 0..39
  /\ \A r \in 0..39 : DOMAIN after[r] = 0..9
  /\ \A r \in (0..39) \ cleared : after[r + Below(cleared, r)] = before[r]
  /\ \A r \in 0..(result.count - 1) : after[r] = EmptyRow
  /\ cleared = {} => after = before /\ result.count = 0

\* C20: clearLines removes exactly the complete rows, all at once: the grid
\* keeps 40 rows of 10 cells, every other row keeps its content and moves
\* down by the number of complete rows that were below it (so the kept rows
\* keep their order), the top count rows are empty, and the result reports
\* count and the original indices of the cleared rows; with no complete row
\* the board is unchanged and count is 0.
ClearLinesCompacts ==
  [][Compacted(game.grid, CompleteRows(game.grid), game'.grid, out')]_vars

\* rows 39 and 37 were cleared together: the incomplete row between them has
\* moved down by one and the row above them by two
ClearLinesCompactsWitness ==
  /\ out.op = "clearLines"
  /\ out.count = 2
  /\ out.rows = {37, 39}
  /\ game.grid[39] = RowOf("gapLeft")
  /\ game.grid[38] = RowOf("one")
  /\ game.grid[37] = EmptyRow

\* the piece, the board, the score and what gravity and the lock delay keep
Played(s) ==
  <<s.currentPiece, s.board, s.score, s.combo, s.backToBack, s.totalLines,
    s.level, s.holdPiece, s.nextQueue, s.gravityAccumulator, s.lockDelayActive,
    s.lockDelayTimer, s.lockResetCount, s.lockCount>>

\* a tick of deltaMs in PLAYING takes the clock of s to or beyond a time limit
Expires(s, deltaMs) ==
  /\ s.status = "PLAYING"
  /\ s.mode.timeLimit > 0
  /\ s.elapsedMs + deltaMs >= s.mode.timeLimit

\* C21: a tick during PLAYING that takes the elapsed time to the mode's time
\* limit > 0 or beyond sets status COMPLETED when the mode is not completable
\* and GAME_OVER when it is, emits exactly the matching event, and applies no
\* gravity and no lock-delay processing: piece, board and score are unchanged;
\* no other tick ends a game with an unchanged board and piece, and with time
\* limit 0 a tick never does, however far the clock is.
TimeExpiry ==
  [][out'.op = "tick" =>
       IF Expires(game, out'.arg)
         THEN /\ game'.status = (IF game.mode.isCompletable THEN "GAME_OVER"
                                 ELSE "COMPLETED")
              /\ out'.events = <<Event(IF game.mode.isCompletable
                                         THEN "game_over" ELSE "completed", 0)>>
              /\ game'.elapsedMs = game.elapsedMs + out'.arg
              /\ Played(game') = Played(game)
         ELSE (game'.status \in Terminal /\ game.status = "PLAYING")
                => game'.lockCount = game.lockCount + 1]_vars

\* the clock of a timed completable mode has run out: GAME_OVER
TimeExpiryWitness ==
  /\ out.op = "tick"
  /\ game.mode = TIMED_SPRINT
  /\ game.status = "GAME_OVER"
  /\ game.elapsedMs >= TIMED_SPRINT.timeLimit
  /\ out.events = <<Event("game_over", 0)>>

\* the mode of s is completed with total lines: 40 in SPRINT, 150 (the level
\* above 15) in MARATHON, never in ULTRA
LinesDone(s, total) ==
  CASE s.mode.type = "SPRINT" -> total >= 40
    [] s.mode.type = "MARATHON" -> total >= 150
    [] OTHER -> FALSE

\* C23: a lock sets status COMPLETED, emitting completed last and spawning no
\* further piece, iff it cleared at least one line and the mode is completed
\* with the lines it brought: in SPRINT at 40 total lines, in MARATHON at 150
\* (level 16), in ULTRA never; a call that locks nothing sets COMPLETED only
\* as a tick whose clock expires in a mode that is not completable.
CompletionByLines ==
  [][IF Locked
       THEN /\ game'.status = "COMPLETED"
                 <=> /\ game'.totalLines > game.totalLines
                     /\ LinesDone(game, game'.totalLines)
            /\ game'.status = "COMPLETED"
                 => /\ out'.events[Len(out'.events)] = Event("completed", 0)
                    /\ game'.nextQueue = game.nextQueue
                    /\ game'.currentPiece = game'.lastClear.piece
                    /\ game'.drawn = game.drawn
                    /\ ~LinesDone(game, game.totalLines)
            /\ game.mode.type = "MARATHON"
                 => (game'.level > 15 <=> game'.totalLines >= 150)
       ELSE (game'.status = "COMPLETED" /\ game.status # "COMPLETED")
              => /\ out'.op = "tick"
                 /\ Expires(game, out'.arg)
                 /\ ~game.mode.isCompletable]_vars

\* a marathon completed by the lock that took it from 146 to 150 lines
CompletionByLinesWitness ==
  /\ out.op = "hardDrop"
  /\ game.mode = MARATHON_MODE
  /\ game.status = "COMPLETED"
  /\ game.totalLines = 150
  /\ game.level = 16

\* the level of s is the one its total lines give
LevelOfLines(s) ==
  s.level = (IF s.mode.type = "SPRINT" THEN 1
             ELSE Min(1 + s.totalLines \div 10, 16))

\* the level_up events among events
LevelUps(events) ==
  SelectSeq(events, LAMBDA e : e.type = "level_up")

\* C24: in every reachable state level = calculateLevel(mode, startLevel,
\* totalLines), which is min(1 + floor(totalLines / 10), 16) in MARATHON and
\* ULTRA and 1 in SPRINT; level never decreases; and a level_up event with
\* the new level is emitted exactly by the calls in which level increases,
\* which are locks.
LevelTracksLines ==
  [][/\ LevelOfLines(game) /\ LevelOfLines(game')
     /\ game'.level
          = calculateLevel(game'.mode, game'.mode.startLevel, game'.totalLines)
     /\ game'.level >= game.level
     /\ LevelUps(out'.events)
          = (IF game'.level > game.level
               THEN <<Event("level_up", game'.level)>> ELSE <<>>)
     /\ game'.level > game.level => Locked]_vars

\* the lock that took a marathon from 6 to 10 lines has raised the level to 2
LevelTracksLinesWitness ==
  /\ game.mode = MARATHON_MODE
  /\ game.totalLines = 10
  /\ game.level = 2
  /\ game.status = "PLAYING"
  /\ LevelUps(out.events) = <<Event("level_up", 2)>>

\* C25: nextQueue holds exactly 5 piece types in every reachable state: after
\* construction and after every tick, lock, hold and spawn, the terminal
\* states included.
QueueOfFive ==
  /\ Len(game.nextQueue) = 5
  /\ \A i \in 1..5 : game.nextQueue[i] \in PieceType

\* a game over after a hold and two locks
QueueOfFiveWitness ==
  /\ game.status = "GAME_OVER"
  /\ game.holdPiece # NoHold
  /\ Len(game.drawn) >= 9
  /\ Len(game.nextQueue) = 5

\* the piece of type at its spawn position
AtSpawn(type) == Piece(type, 0, IF type = "I" THEN 18 ELSE 19, 3)

\* every aligned group of 7 of seq holds no type twice
GroupsOfSeven(seq) ==
  \A i, j \in 1..Len(seq) :
    (i < j /\ (i - 1) \div 7 = (j - 1) \div 7) => seq[i] # seq[j]

\* the queue is the last five draws, the draws before them have entered play
QueueIsTail(s) ==
  s.nextQueue = SubSeq(s.drawn, Len(s.drawn) - 4, Len(s.drawn))

\* C26: a call spawns at most once from the queue, drawing once; the spawn
\* makes the former nextQueue[0] the current piece at column 3, row 18 for I
\* and 19 otherwise, rotation 0, shifts the other 4 entries forward unchanged
\* and appends the fresh draw; so the queue is always the last 5 draws, the
\* k-th piece to enter play from the queue is the k-th draw, and every aligned
\* group of 7 draws holds each type at most once.
SpawnFIFO ==
  [][/\ QueueIsTail(game) /\ QueueIsTail(game')
     /\ GroupsOfSeven(game'.drawn)
     /\ Len(game'.drawn) \in {Len(game.drawn), Len(game.drawn) + 1}
     /\ SubSeq(game'.drawn, 1, Len(game.drawn)) = game.drawn
     /\ Len(game'.drawn) = Len(game.drawn) + 1
          => /\ game'.currentPiece = AtSpawn(game.nextQueue[1])
             /\ game'.currentPiece.type = game'.drawn[Len(game'.drawn) - 5]
             /\ SubSeq(game'.nextQueue, 1, 4) = Tail(game.nextQueue)
             /\ game'.nextQueue[5] = game'.drawn[Len(game'.drawn)]
     /\ Len(game'.drawn) = Len(game.drawn)
          => game'.nextQueue = game.nextQueue]_vars

\* the third piece to enter play, after the I that was second, with the
\* eighth draw, the first of the second bag, at the tail of the queue
SpawnFIFOWitness ==
  /\ game.rng.src = <<3>>
  /\ Len(game.drawn) = 8
  /\ game.currentPiece = AtSpawn(game.drawn[3])
  /\ game.lastClear.piece.type = "I"
  /\ game.status = "PLAYING"

\* the values the next k calls of next() return from the randomizer state s
RECURSIVE FutureDraws(_, _)
FutureDraws(s, k) ==
  IF k = 0 THEN <<>>
  ELSE LET r == randomizerNext(s, CHOOSE rs \in NextRandoms(s.rng) : TRUE)
       IN <<r.piece>> \o FutureDraws(r.state, k - 1)

\* preview(n) in state s has min(n, pieces left in the bag + 7) entries, n of
\* them if n <= 7, and they are the first of all that can be seen
PreviewOf(s, all) ==
  \A n \in (0..15) \cup PreviewCounts :
    /\ Len(preview(s, n)) = Min(n, Len(s.bag) + 7)
    /\ n <= 7 => Len(preview(s, n)) = n
    /\ preview(s, n) = SubSeq(all, 1, Len(preview(s, n)))

\* all that can be seen in state s is what the next calls of next() return
SeesFuture(s) ==
  preview(s, 14) = SubSeq(FutureDraws(s, 14), 1, Len(s.bag) + 7)

\* C27: in every reachable randomizer state preview(n) has exactly n entries
\* for n <= 7 and min(n, pieces left in the current bag + 7) for larger n, and
\* its entries are the values of the following next() calls, in order: the
\* next() call that follows returns its first entry and leaves the rest to be
\* previewed; a call that neither draws nor reshuffles leaves the state as it
\* is.
PreviewAgrees ==
  [][/\ PreviewOf(game', preview(game', 14))
     /\ SeesFuture(game')
     /\ Len(game'.drawn) = Len(game.drawn) + 1
          => \A n \in 1..(Len(game.bag) + 7) :
               preview(game, n)
                 = <<game'.drawn[Len(game'.drawn)]>> \o preview(game', n - 1)
     /\ (game'.drawn = game.drawn /\ game'.rng = game.rng) => game' = game]_vars

\* a preview of all that can be seen, called with the current bag used up:
\* the seven pieces of the next bag
PreviewAgreesWitness ==
  /\ Len(game.drawn) = 7
  /\ Len(game.bag) = 0
  /\ out = game.nextBag
  /\ out = preview(game, 20)

\* the current piece of s rests on a surface: one row below it is invalid
Resting(s) ==
  ~isValidPosition(s.board, s.currentPiece.type, s.currentPiece.rotation,
                   s.currentPiece.row + 1, s.currentPiece.col)

\* C30: immediately after every successful moveLeft, moveRight, rotateCW or
\* rotateCCW, lock-delay is active iff the piece rests on a surface, whether
\* or not it was active before the call.
LockDelayFollowsResting ==
  [][(out'.op \in {"moveLeft", "moveRight", "rotateCW", "rotateCCW"}
        /\ out'.ret)
       => (game'.lockDelayActive <=> Resting(game'))]_vars

\* a piece has moved off the surface it rested on: the move has counted as a
\* reset of the lock delay and deactivated it
LockDelayFollowsRestingWitness ==
  /\ out.op \in {"moveLeft", "moveRight"}
  /\ out.ret
  /\ ~game.lockDelayActive
  /\ game.lockResetCount >= 1
  /\ ~Resting(game)

\* a tick of a game in PLAYING whose lock delay is active, with no successful
\* move or rotation since the activation: the piece locks iff the deltaMs of
\* the ticks since the activation, this one included, add up to 500 or more;
\* and whatever the player did, the tick applies no gravity
DelayTick ==
  /\ mark # NoMark
  /\ \A m \in mark :
       ~m.moved => (Locked <=> game.elapsedMs + out'.arg - m.at >= 500)
  /\ ~Locked => /\ game'.currentPiece = game.currentPiece
                /\ game'.gravityAccumulator = game.gravityAccumulator
  /\ Locked => game'.lastClear.piece = game.currentPiece

\* C28 as stated: every tick made while the lock delay is active.
LockAfterDelayAlways ==
  [][(out'.op = "tick" /\ game.status = "PLAYING" /\ game.lockDelayActive)
       => DelayTick]_vars

\* C28: while lock-delay is active and the player makes no successful move or
\* rotation, the piece locks in the first tick at which the deltaMs of the
\* ticks made in PLAYING since the activation add up to 500 ms or more, and in
\* no earlier tick, unless that tick ends the game by time expiry; while
\* lock-delay is active, ticks apply no gravity.
LockAfterDelay ==
  [][(out'.op = "tick" /\ game.status = "PLAYING" /\ game.lockDelayActive
        /\ ~Expires(game, out'.arg))
       => DelayTick]_vars

\* gravity found the piece resting in a tick of 1000 ms; the second of two
\* ticks of 250 ms after it has locked the piece
LockAfterDelayWitness ==
  /\ out.op = "tick"
  /\ out.arg = 250
  /\ game.mode = MARATHON_MODE
  /\ game.elapsedMs = 1500
  /\ "lock" \in {out.events[i].type : i \in 1..Len(out.events)}
  /\ game.lastClear.piece = Piece("O", 0, 19, 3)

UltraEnding ==
  /\ (game'.status = "COMPLETED" /\ game.status # "COMPLETED")
       => (out'.op = "tick" /\ Expires(game, out'.arg))
  /\ (game'.status = "GAME_OVER" /\ game.status # "GAME_OVER")
       => (MustSpawnBlocked /\ game.elapsedMs < game.mode.timeLimit)
  /\ (out'.op = "tick" /\ Expires(game, out'.arg))
       => game'.status = "COMPLETED"
  /\ (out'.op = "tick" /\ game.status = "PLAYING")
       => game'.elapsedMs = game.elapsedMs + out'.arg

\* C22: an ULTRA game in which tick is called with deltaMs > 0 as long as the
\* status is PLAYING, and which is not left PAUSED, reaches a terminal status
\* whatever the player does in between; the status is COMPLETED, set by the
\* tick that takes the clock to the time limit, unless a piece that could not
\* be placed has set GAME_OVER before
UltraEnds ==
  /\ <>(game.status \in Terminal)
  /\ [][UltraEnding]_vars

\* the time is up, after the player has paused the game and made two more
\* calls
UltraEndsWitness ==
  /\ game.mode = ULTRA_MODE
  /\ game.status = "COMPLETED"
  /\ game.elapsedMs >= ULTRA_MODE.timeLimit
  /\ calls = 0
  /\ out.op = "tick"

\* the types of the events of a sequence, in order
TypesOf(events) == [i \in 1..Len(events) |-> events[i].type]

\* the order of the types ts of the events of one call
LockOrder(ts) ==
  \A i \in 1..Len(ts) :
    /\ ts[i] = "hard_drop" => (i < Len(ts) /\ ts[i + 1] = "lock")
    /\ ts[i] = "line_clear" => (i > 1 /\ ts[i - 1] = "lock")
    /\ ts[i] = "level_up" => (i > 1 /\ ts[i - 1] = "line_clear")
    /\ ts[i] = "lock" =>
         \A j \in 1..Len(ts) : ts[j] \in {"completed", "game_over"} => i < j
    /\ ts[i] \in {"completed", "game_over"} =>
         \A j \in 1..Len(ts) :
           ts[j] \in {"lock", "line_clear", "level_up"} => j < i

\* C31: in the events of every call each hard_drop is immediately followed by a
\* lock, each line_clear immediately preceded by a lock, each level_up
\* immediately preceded by a line_clear, and a completed or game_over comes
\* after the lock, line_clear and level_up of the call; a call locks at most
\* once, and a lock that clears no line emits no line_clear and no level_up
EventOrder ==
  [][LET ts == TypesOf(out'.events)
     IN /\ LockOrder(ts)
        /\ Cardinality({i \in 1..Len(ts) : ts[i] = "lock"})
             = game'.lockCount - game.lockCount
        /\ game'.lockCount - game.lockCount \in {0, 1}
        /\ game'.totalLines = game.totalLines
             => \A i \in 1..Len(ts) : ts[i] \notin {"line_clear", "level_up"}
        /\ game'.totalLines # game.totalLines
             => \E i \in 1..Len(ts) : ts[i] = "line_clear"]_vars

\* the hard drop that completes the marathon
EventOrderWitness ==
  TypesOf(out.events)
    = <<"hard_drop", "lock", "line_clear", "level_up", "completed">>

\* C32: no state has status PLAYING together with a non-empty cell in the
\* hidden rows 0..19: a lock that leaves one there ends the game in GAME_OVER
HiddenRowsEndGame ==
  game.status = "PLAYING" => ~isTopRowOccupied(game.board)

\* the four cells of the piece of s lie inside the grid and are empty
PieceFree(s) ==
  /\ s.currentPiece # NoPiece
  /\ isValidPosition(s.board, s.currentPiece.type, s.currentPiece.rotation,
                     s.currentPiece.row, s.currentPiece.col)

\* C33: in every state with status PLAYING or PAUSED the four cells of
\* currentPiece lie inside the 40 x 10 grid and are all empty on the board
PieceNeverOverlaps ==
  game.status \in {"PLAYING", "PAUSED"} => PieceFree(game)

\* a game that goes on after a lock, a hold and a rotation away from the
\* spawn orientation
PieceNeverOverlapsWitness ==
  /\ game.status = "PLAYING"
  /\ game.holdPiece # NoHold
  /\ game.lastClear.piece # NoPiece
  /\ game.currentPiece.rotation # 0
  /\ PieceFree(game)

\* the cells a lock writes: those of the piece recorded at the lock
LockedCells(s) ==
  Range(getAbsoluteCells(s.lastClear.piece.type, s.lastClear.piece.rotation,
                         s.lastClear.piece.row, s.lastClear.piece.col))

\* C34: the number of non-empty cells of the board is 4 x (locks so far)
\* - 10 x totalLines; a lock writes four cells that are inside the grid and
\* were empty; a call that does not lock leaves the board as it is
CellConservation ==
  [][/\ FilledCells(game'.board)
          = 4 * game'.lockCount - BOARD_COLS * game'.totalLines
     /\ ~Locked => (game'.board = game.board
                     /\ game'.totalLines = game.totalLines)
     /\ Locked =>
          /\ game'.lockCount = game.lockCount + 1
          /\ Cardinality(LockedCells(game')) = 4
          /\ \A c \in LockedCells(game') :
               InBounds(c.row, c.col) /\ game.board[c.row][c.col] = Empty
          /\ FilledCells(game'.board) + BOARD_COLS * Cardinality(game'.lastClear.rows)
               = FilledCells(game.board) + 4]_vars

\* a lock that cleared a line of a game that goes on
CellConservationWitness ==
  /\ Cardinality(game.lastClear.rows) >= 1
  /\ game.status = "PLAYING"
  /\ FilledCells(game.board) = 4 * game.lockCount - BOARD_COLS * game.totalLines
  /\ FilledCells(game.board) > 0

\* C35: after construction and after every call, no row of the board has all
\* 10 columns non-empty
NoCompleteRow ==
  \A r \in 0..(BOARD_ROWS - 1) :
    \E c \in 0..(BOARD_COLS - 1) : game.board[r][c] = Empty

\* a lock has completed rows, and they are gone
NoCompleteRowWitness ==
  /\ game.lastClear.rows # {}
  /\ game.lastClear.piece.type = "I"
  /\ NoCompleteRow

\* piece p cannot go one row down on grid
Grounded(grid, p) ==
  ~isValidPosition(grid, p.type, p.rotation, p.row + 1, p.col)

\* C36: every lock, by the lock delay in tick or by hardDrop, writes the piece
\* at a position whose one-row-lower position is not valid on the board
\* before the lock; and in a game that is not over, whenever the lock delay is
\* active the current piece cannot move down
NoLockInMidAir ==
  [][/\ Locked => Grounded(game.board, game'.lastClear.piece)
     /\ (game'.status \notin Terminal /\ game'.lockDelayActive)
          => Grounded(game'.board, game'.currentPiece)]_vars

\* the lock delay has locked a piece the player had moved aside
NoLockInMidAirWitness ==
  /\ out.op = "tick"
  /\ "lock" \in Range(TypesOf(out.events))
  /\ game.lastClear.piece.col # SPAWN_COL
  /\ game.lastClear.piece.row > 20

\* the lock of the call just made was scored as a T-spin or a mini T-spin
SpinScored ==
  \/ game'.lastClear.isTSpin
  \/ game'.lastClear.isTSpinMini
  \/ game'.lastClear.clearType
       \in {"TSPIN_ZERO", "TSPIN_MINI", "TSPIN_SINGLE", "TSPIN_DOUBLE",
            "TSPIN_TRIPLE"}

\* C37: a lock made by hardDrop is scored with isTSpin and isTSpinMini false,
\* also when the piece drops by 0 rows right after a T rotation that reported
\* a T-spin; a lock scored as a T-spin is made by the lock delay in tick
HardDropNoTSpin ==
  [][Locked => /\ out'.op \in {"tick", "hardDrop"}
               /\ out'.op = "hardDrop" => ~SpinScored
               /\ SpinScored => (out'.op = "tick" /\ game.lastMoveWasRotation
                                   /\ game.currentPiece.type = "T")]_vars

\* a T turned out of its spawn orientation has been locked by a hard drop of
\* 0 rows
HardDropNoTSpinWitness ==
  /\ out.op = "hardDrop"
  /\ Len(out.events) > 0
  /\ out.events[1] = Event("hard_drop", 0)
  /\ game.lastClear.piece.type = "T"
  /\ game.lastClear.piece.rotation # 0
  /\ ~game.lastClear.isTSpin

\* the kick list tryRotate reads for a piece of the type
KicksOf(type, from, to) ==
  IF type = "I" THEN I_KICKS(from, to) ELSE JLSTZ_KICKS(from, to)

\* the list of to>from holds, test by test, the negation of that of from>to
KicksNegated(type) ==
  \A from \in 0..3 : \A to \in {(from + 1) % 4, (from + 3) % 4} :
    /\ Len(KicksOf(type, to, from)) = Len(KicksOf(type, from, to))
    /\ \A i \in 1..Len(KicksOf(type, from, to)) :
         KicksOf(type, to, from)[i]
           = <<0 - KicksOf(type, from, to)[i][1],
               0 - KicksOf(type, from, to)[i][2]>>

\* tryRotate against the direction of the rotation just made, from where it
\* has put the piece
Back ==
  tryRotate(game'.board, game'.currentPiece.type, game'.currentPiece.rotation,
            game'.currentPiece.row, game'.currentPiece.col,
            0 - out'.direction)

\* C38: when tryRotate in direction d succeeds, tryRotate in direction -d from
\* the kicked position succeeds too and yields the rotation state the piece
\* had; the reverse kick list holds the negation of the kick taken, so the
\* position the piece had is among its candidates
RotationUndone ==
  [][out'.result.ok =>
       /\ Back.ok
       /\ Back.newRotation = game.currentPiece.rotation
       /\ KicksNegated(game.currentPiece.type)
       /\ <<0 - out'.result.kickCol, out'.result.kickRow>>
            \in Range(KicksOf(game.currentPiece.type,
                              game'.currentPiece.rotation,
                              game.currentPiece.rotation))]_vars

\* a rotation that took a kick
RotationUndoneWitness ==
  /\ out.result.ok
  /\ out.result.kickCol # 0
  /\ out.result.kickRow # 0
  /\ game.currentPiece.type \in {"I", "T"}

\* the types ts of the events of a call end with their only terminal event,
\* if they have one
EndsTerminal(ts) ==
  \A i \in 1..Len(ts) : ts[i] \in {"game_over", "completed"} => i = Len(ts)

\* C39: no event follows a game_over or completed event, among the events of
\* the call that ends the game or in a later call; at most one of them is
\* emitted; and a hold that ends the game returns false and emits no hold
\* event
TerminalEventLast ==
  [][LET ts == TypesOf(out'.events)
     IN /\ EndsTerminal(ts)
        /\ game.status \in Terminal => ts = <<>>
        /\ (out'.op = "hold" /\ game.status = "PLAYING"
              /\ game'.status = "GAME_OVER")
             => (~out'.ret /\ "hold" \notin Range(ts))]_vars

\* C40: while status is PLAYING or PAUSED, level <= mode.maxLevel, in
\* MARATHON, SPRINT and ULTRA: the value maxLevel + 1 of calculateLevel is
\* found in terminal states only
LevelWithinMax ==
  game.status \in {"PLAYING", "PAUSED"} => game.level <= game.mode.maxLevel
=============================================================================
